---------------------------- MODULE Spec2Model ----------------------------
(***************************************************************************)
(* Model of python/github/github_repo_attach-code-security-config.py.      *)
(*                                                                         *)
(* Part 1 (specification Spec): safe_get_request and safe_post_request,    *)
(* both called at the same instant against the same server, which serves   *)
(* every request of both calls the same response after the same latency.   *)
(* Part 2 (specification SpecConfig): the configuration lookups.           *)
(* Part 3 (specification SpecMain): the script from its first line to its  *)
(* exit, a call of safe_get_request / safe_post_request being one step.    *)
(*                                                                         *)
(* Units.  The wall clock `now` counts ticks of 1/TicksPerSecond second,   *)
(* so that time.time() (a float) has a fractional part and                 *)
(* int(time.time()) truncates.  start_time, current_time and               *)
(* timeout_seconds are floats in the source and ticks here; reset_time,    *)
(* wait_time and backoff_time are whole seconds, as in the source.         *)
(***************************************************************************)
EXTENDS Integers, Sequences, FiniteSets, TLC

VARIABLES
    now,              \* the wall clock, in ticks
    timeout_seconds,  \* the timeout_seconds argument of both calls, in ticks
    get,              \* the frame of safe_get_request
    post,             \* the frame of safe_post_request
    served,           \* every response the server has served, in order
    env,              \* os.environ after load_dotenv(): name -> value
    cfg,              \* the last configuration lookup and how it ended
    csv,              \* the CSV file named on the command line
    main,             \* the script: its variables and where it stands
    http,             \* every call of safe_get_request / safe_post_request
    args,             \* the arguments a function is applied to
    call,             \* the frame of a retry-by-recursion request helper
    topics,           \* github_repo_add_topics.py: its variables and its log
    ado,              \* ado_repo_information.py: its variables and its log
    twice,            \* add_topics_to_repo called twice against one repository
    info,             \* github/github_repo_information.py: its loop and its log
    row,              \* a row of a repo-information script and its columns
    pipe              \* ado_pipeline_source_update.py: its loop and its log

clientVars == <<now, timeout_seconds, get, post, served>>

scriptVars == <<csv, main, http>>

otherVars == <<args, call, topics, ado>>

moreVars == <<twice, info, row, pipe>>

vars ==
    <<now, timeout_seconds, get, post, served, env, cfg, csv, main, http,
      args, call, topics, ado, twice, info, row, pipe>>

-----------------------------------------------------------------------------
(* Bounds of the model. *)

TicksPerSecond == 2
EpochStart == 100        \* time.time() at the call, in seconds
MaxLatency == 1          \* ticks one HTTP request may take
MaxTimeout == 16         \* largest timeout_seconds tried, in ticks
MaxRequests == 4         \* requests one call may issue before the model stops
MaxEnvLen == 3           \* longest value of an environment variable
MaxRepos == 7            \* most rows of the CSV file

-----------------------------------------------------------------------------
(* Responses: the status code and the two headers the code reads. *)

AbsentHeader == [kind |-> "absent", val |-> 0]
IntHeader(n) == [kind |-> "int", val |-> n]
BadHeader    == [kind |-> "text", val |-> 0]   \* a value int() rejects

Response(status, remaining, reset) ==
    [status_code |-> status, remaining |-> remaining, reset |-> reset]

NoResponse == Response(0, "absent", AbsentHeader)

\* int(time.time())
IntTime(t) == t \div TicksPerSecond

\* The X-RateLimit-Reset values a server may send at time t (epoch seconds):
\* passed by exactly the buffer, one second inside the buffer, and five
\* seconds ahead.
ResetOffsets == {-10, -9, 5}

ResetHeaders(t) ==
    {AbsentHeader, BadHeader} \cup {IntHeader(IntTime(t) + o) : o \in ResetOffsets}

Responses(t) ==
    {Response(s, "absent", AbsentHeader) : s \in {200, 404, 409, 500, 403}}
      \cup {Response(403, "1", IntHeader(IntTime(t) + 5)),
            Response(409, "0", IntHeader(IntTime(t) + 5)),
            Response(200, "0", IntHeader(IntTime(t) + 5))}
      \cup {Response(403, "0", h) : h \in ResetHeaders(t)}

-----------------------------------------------------------------------------
(* The helpers both functions share. *)

RateLimitBuffer == 10

\* Faulty variant: every 403 counts as rate limited, whatever its headers.
IsRateLimitedAny403(response) == response.status_code = 403

\* The test of lines 145 and 172.
IsRateLimited(response) ==
    response.status_code = 403 /\ response.remaining = "0"

\* int(...) of line 121 raises ValueError on a header that is not a number.
ResetTimeRaises(response) == response.reset.kind = "text"

\* get_rate_limit_reset_time: the header as an integer, 0 when it is absent.
get_rate_limit_reset_time(response) ==
    IF response.reset.kind = "int" THEN response.reset.val ELSE 0

\* wait_time of line 126, read at clock t.
WaitTime(reset_time, t) == reset_time - IntTime(t) + RateLimitBuffer

\* Faulty variant: the 10-second buffer is forgotten.
wait_without_buffer(reset_time, t) ==
    IF reset_time - IntTime(t) > 0 THEN reset_time - IntTime(t) ELSE 0

\* wait_for_rate_limit_reset: the seconds it sleeps (0: it does not sleep).
wait_for_rate_limit_reset(reset_time, t) ==
    IF WaitTime(reset_time, t) > 0 THEN WaitTime(reset_time, t) ELSE 0

\* Faulty variant: the deadline itself already counts as timed out.
TimedOutInclusive(f, timeout) == f.current_time - f.start_time >= timeout

\* Faulty variant: the test allows one tick more than the timeout.
TimedOutLate(f, timeout) == f.current_time - f.start_time > timeout + 1

\* Faulty variant: the elapsed time is never tested.
TimedOutNever(f, timeout) == FALSE

\* The timeout test of lines 147, 174 and 183.
TimedOut(f, timeout) == f.current_time - f.start_time > timeout

Raise(f, error) == [f EXCEPT !.pc = "raised", !.error = error]

\* `continue`: back to the top of the while loop.
Continue(f) == [f EXCEPT !.pc = "request", !.sleeping = 0, !.retries = @ + 1]

\* A wait of `secs` seconds begins: time.sleep(secs) when secs > 0, and no
\* sleep at all (line 127 is false) when secs = 0.  `waits` logs both.
Sleep(f, kind, secs) ==
    LET g == [f EXCEPT !.waits = Append(@, [kind |-> kind, secs |-> secs])]
    IN  IF secs > 0 THEN [g EXCEPT !.pc = "sleep", !.sleeping = secs]
        ELSE Continue(g)

-----------------------------------------------------------------------------
(* safe_get_request, one operator per stretch of code between two waits.   *)

\* The frame before the call: the locals of the source (start_time,
\* current_time, response), where the call stands (pc, sleeping, error) and
\* what it has done so far (nreq, retries, waits).
GetIdle ==
    [pc |-> "idle", start_time |-> 0, current_time |-> 0,
     response |-> NoResponse, sleeping |-> 0, waits |-> << >>,
     nreq |-> 0, retries |-> 0, error |-> "none"]

\* line 138
GetCall(f, t) == [f EXCEPT !.pc = "request", !.start_time = t]

\* lines 141-142: the response of requests.get, received at clock t
GetReceive(f, resp, t) ==
    [f EXCEPT !.pc = "check", !.response = resp, !.current_time = t,
              !.nreq = @ + 1]

\* lines 145-153, run at clock t
GetHandle(f, t, timeout) ==
    IF IsRateLimited(f.response)
    THEN IF TimedOut(f, timeout)
         THEN Raise(f, "TimeoutError: rate limit")
         ELSE IF ResetTimeRaises(f.response)
         THEN Raise(f, "ValueError")
         ELSE LET secs == wait_for_rate_limit_reset(
                              get_rate_limit_reset_time(f.response), t)
              IN  Sleep(f, "rate", secs)
    ELSE [f EXCEPT !.pc = "returned"]

\* time.sleep of line 129 returns; line 151
GetWake(f) == Continue(f)

-----------------------------------------------------------------------------
(* safe_post_request *)

InitialBackoff == 1
BackoffFactor == 2

PostIdle ==
    [pc |-> "idle", start_time |-> 0, current_time |-> 0,
     response |-> NoResponse, sleeping |-> 0, waits |-> << >>,
     nreq |-> 0, retries |-> 0, error |-> "none", backoff_time |-> 0]

\* lines 164-165
PostCall(f, t) ==
    [f EXCEPT !.pc = "request", !.start_time = t, !.backoff_time = InitialBackoff]

\* lines 168-169
PostReceive(f, resp, t) ==
    [f EXCEPT !.pc = "check", !.response = resp, !.current_time = t,
              !.nreq = @ + 1]

\* Faulty variant: the rate-limit branch of safe_post_request never tests the timeout.
PostHandleNoRateTimeout(f, t, timeout) ==
    IF IsRateLimited(f.response)
    THEN IF ResetTimeRaises(f.response)
         THEN Raise(f, "ValueError")
         ELSE Sleep(f, "rate", wait_for_rate_limit_reset(
                                   get_rate_limit_reset_time(f.response), t))
    ELSE IF f.response.status_code = 409
    THEN IF TimedOut(f, timeout)
         THEN Raise(f, "TimeoutError: conflict")
         ELSE Sleep(f, "conflict", f.backoff_time)
    ELSE [f EXCEPT !.pc = "returned"]

\* lines 172-190, up to the sleep
PostHandle(f, t, timeout) ==
    IF IsRateLimited(f.response)
    THEN IF TimedOut(f, timeout)
         THEN Raise(f, "TimeoutError: rate limit")
         ELSE IF ResetTimeRaises(f.response)
         THEN Raise(f, "ValueError")
         ELSE LET secs == wait_for_rate_limit_reset(
                              get_rate_limit_reset_time(f.response), t)
              IN  Sleep(f, "rate", secs)
    ELSE IF f.response.status_code = 409
    THEN IF TimedOut(f, timeout)
         THEN Raise(f, "TimeoutError: conflict")
         ELSE Sleep(f, "conflict", f.backoff_time)
    ELSE [f EXCEPT !.pc = "returned"]

\* Faulty variant: the back-off is capped at 2 seconds.
NextBackoffCapped(backoff_time) ==
    IF backoff_time * BackoffFactor > 2 THEN 2 ELSE backoff_time * BackoffFactor

\* line 187
NextBackoff(backoff_time) == backoff_time * BackoffFactor

\* Faulty variant: a rate-limit sleep puts the back-off back to its first value.
PostWakeResetsBackoff(f) ==
    IF f.waits[Len(f.waits)].kind = "conflict"
    THEN [Continue(f) EXCEPT !.backoff_time = NextBackoff(@)]
    ELSE [Continue(f) EXCEPT !.backoff_time = InitialBackoff]

\* Faulty variant: a sleep of more than one second ends in the timeout error
\* instead of another request.
PostWakeGivesUp(f) ==
    IF f.sleeping > 1 THEN Raise(f, "TimeoutError: rate limit")
    ELSE IF f.waits[Len(f.waits)].kind = "conflict"
    THEN [Continue(f) EXCEPT !.backoff_time = NextBackoff(@)]
    ELSE Continue(f)

\* the sleep of line 129 or 186 returns; lines 178, 187-188
PostWake(f) ==
    IF f.waits[Len(f.waits)].kind = "conflict"
    THEN [Continue(f) EXCEPT !.backoff_time = NextBackoff(@)]
    ELSE Continue(f)

-----------------------------------------------------------------------------
(* Part 2 (specification SpecConfig): the configuration lookups, lines      *)
(* 11-39.  A string is a sequence of characters; an environment variable is *)
(* unset (os.getenv gives None) or set to a string.                         *)

Chars == {"0", "3", "-", " ", ".", "x"}

Digits == {"0", "1", "2", "3", "4", "5", "6", "7", "8", "9"}

DigitValue(c) ==
    CASE c = "0" -> 0 [] c = "1" -> 1 [] c = "2" -> 2 [] c = "3" -> 3
      [] c = "4" -> 4 [] c = "5" -> 5 [] c = "6" -> 6 [] c = "7" -> 7
      [] c = "8" -> 8 [] c = "9" -> 9

Strings(n) == UNION {[1..k -> Chars] : k \in 0..n}

Names == {"GITHUB_PAT", "BATCH_SIZE", "API_TIMEOUT_SECONDS"}

Unset == [set |-> FALSE, val |-> << >>]
SetTo(str) == [set |-> TRUE, val |-> str]

NoEnv == [n \in Names |-> Unset]

\* `not value` of line 19: None and the empty string are false.
Falsy(value) == ~value.set \/ Len(value.val) = 0

\* str.strip(), which int() and float() apply to their argument
RECURSIVE Strip(_)
Strip(str) ==
    IF str = << >> THEN str
    ELSE IF Head(str) = " " THEN Strip(Tail(str))
    ELSE IF str[Len(str)] = " " THEN Strip(SubSeq(str, 1, Len(str) - 1))
    ELSE str

AllDigits(str) == \A k \in 1..Len(str) : str[k] \in Digits

Signed(str) == str # << >> /\ Head(str) \in {"-", "+"}

Unsigned(str) == IF Signed(str) THEN Tail(str) ELSE str

RECURSIVE DecimalValue(_)
DecimalValue(str) ==
    IF str = << >> THEN 0
    ELSE 10 * DecimalValue(SubSeq(str, 1, Len(str) - 1))
           + DigitValue(str[Len(str)])

Sign(str) == IF Signed(str) /\ Head(str) = "-" THEN -1 ELSE 1

\* What int(str) accepts: blanks around an optional sign and one digit or more.
IntAccepts(str) ==
    LET u == Unsigned(Strip(str)) IN u # << >> /\ AllDigits(u)

IntOf(str) == Sign(Strip(str)) * DecimalValue(Unsigned(Strip(str)))

WithoutPoint(str) == SelectSeq(str, LAMBDA c : c # ".")

\* What float(str) accepts of the strings over Chars: blanks around an
\* optional sign and digits with at most one point and one digit or more.
FloatAccepts(str) ==
    LET u == Unsigned(Strip(str)) IN
      /\ WithoutPoint(u) # << >>
      /\ AllDigits(WithoutPoint(u))
      /\ Len(u) - Len(WithoutPoint(u)) <= 1

RECURSIVE Pow10(_)
Pow10(n) == IF n = 0 THEN 1 ELSE 10 * Pow10(n - 1)

RECURSIVE DigitsAfterPoint(_)
DigitsAfterPoint(str) ==
    IF str = << >> \/ str[Len(str)] = "." THEN 0
    ELSE IF \E k \in 1..Len(str) : str[k] = "."
    THEN 1 + DigitsAfterPoint(SubSeq(str, 1, Len(str) - 1))
    ELSE 0

\* float(str) as the fraction num / den.
FloatOf(str) ==
    LET u == Unsigned(Strip(str)) IN
      [num |-> Sign(Strip(str)) * DecimalValue(WithoutPoint(u)),
       den |-> Pow10(DigitsAfterPoint(u))]

NoValue == [str |-> << >>, int |-> 0, num |-> 0, den |-> 1]

\* How a function ends: with a value, or with an exception, `key` being the
\* arguments the exception was constructed with when the model follows them.
Returned(fn, value) ==
    [fn |-> fn, ok |-> TRUE, error |-> "none", value |-> value, key |-> << >>]

Raised(fn, error) ==
    [fn |-> fn, ok |-> FALSE, error |-> error, value |-> NoValue, key |-> << >>]

RaisedFor(fn, error, key) == [Raised(fn, error) EXCEPT !.key = key]

NoLookup ==
    [fn |-> "none", ok |-> TRUE, error |-> "none", value |-> NoValue,
     key |-> << >>]

\* Faulty variant: only an unset variable counts as missing.
get_variable_unless_unset(e, env_var_name) ==
    IF ~e[env_var_name].set
    THEN Raised(env_var_name, "EnvVarMissingError")
    ELSE Returned(env_var_name, [NoValue EXCEPT !.str = e[env_var_name].val])

\* lines 17-21
get_environment_variable_or_raise(e, env_var_name) ==
    IF Falsy(e[env_var_name])
    THEN Raised(env_var_name, "EnvVarMissingError")
    ELSE Returned(env_var_name, [NoValue EXCEPT !.str = e[env_var_name].val])

DefaultBatchSize == 1

\* Faulty variant: os.getenv("BATCH_SIZE") without its default, so int(None) raises.
get_repo_batch_size_no_default(e) ==
    IF ~e["BATCH_SIZE"].set
    THEN Raised("get_repo_batch_size", "TypeError")
    ELSE IF IntAccepts(e["BATCH_SIZE"].val)
    THEN Returned("get_repo_batch_size",
                  [NoValue EXCEPT !.int = IntOf(e["BATCH_SIZE"].val)])
    ELSE Raised("get_repo_batch_size", "ValueError")

\* lines 30-33: the default is the integer 1, which int() returns as it is
get_repo_batch_size(e) ==
    IF ~e["BATCH_SIZE"].set
    THEN Returned("get_repo_batch_size", [NoValue EXCEPT !.int = DefaultBatchSize])
    ELSE IF IntAccepts(e["BATCH_SIZE"].val)
    THEN Returned("get_repo_batch_size",
                  [NoValue EXCEPT !.int = IntOf(e["BATCH_SIZE"].val)])
    ELSE Raised("get_repo_batch_size", "ValueError")

\* The default of line 37 is the string "60", which float() parses.
DefaultTimeout == <<"6", "0">>

\* lines 35-39
get_api_timeout_seconds(e) ==
    LET str == IF e["API_TIMEOUT_SECONDS"].set
               THEN e["API_TIMEOUT_SECONDS"].val ELSE DefaultTimeout
    IN  IF FloatAccepts(str)
        THEN Returned("get_api_timeout_seconds",
                      [NoValue EXCEPT !.num = FloatOf(str).num,
                                      !.den = FloatOf(str).den])
        ELSE Raised("get_api_timeout_seconds", "ValueError")

-----------------------------------------------------------------------------
(* Part 3 (specification SpecMain): the script, lines 338-415.  A call of   *)
(* safe_get_request or safe_post_request is one step here: it ends with a   *)
(* response that is not retryable or with an exception, as Part 1 shows.    *)

\* base64.b64encode, line 26: the encoded text stands for the bytes it encodes.
B64(str) == <<"b64">> \o str

\* Faulty variant: the token is encoded without the test for a missing variable.
get_base64_encoded_pat_unchecked(e) ==
    Returned("get_base64_encoded_pat",
             [NoValue EXCEPT !.str = B64(e["GITHUB_PAT"].val)])

\* lines 23-28
get_base64_encoded_pat(e) ==
    LET pat == get_environment_variable_or_raise(e, "GITHUB_PAT")
    IN  IF pat.ok
        THEN Returned("get_base64_encoded_pat",
                      [NoValue EXCEPT !.str = B64(pat.value.str)])
        ELSE pat

\* How a call of safe_get_request / safe_post_request ends.
Answer(status) == [raised |-> FALSE, error |-> "none", status_code |-> status]
Throws(error) == [raised |-> TRUE, error |-> error, status_code |-> 0]

\* TimeoutError (lines 148, 175, 184), an exception of requests (no
\* connection), ValueError (line 121).
CallErrors == {"TimeoutError", "ConnectionError", "ValueError"}

ConfigStatuses == {200, 404, 500}
RepoStatuses == {200, 204, 403, 404, 500}
PostStatuses == {202, 200, 404, 500}

ConfigOutcomes ==
    {Answer(st) : st \in ConfigStatuses} \cup {Throws(e) : e \in CallErrors}
RepoOutcomes ==
    {Answer(st) : st \in RepoStatuses} \cup {Throws(e) : e \in CallErrors}
PostOutcomes == {Answer(st) : st \in PostStatuses} \cup {Throws(e) : e \in CallErrors}

\* The exceptions that derive from requests.exceptions.RequestException.
RequestExceptions == {"ConnectionError", "HTTPError"}

\* response.raise_for_status()
RaisesForStatus(status) == status >= 400 /\ status < 600

\* args.owner, line 342
Owner == <<"o", "r", "g">>

\* The configurations an organization may have; the script looks for "cfg".
ConfigName == <<"c", "f", "g">>
OtherName == <<"o">>
ConfigLists ==
    {<< >>,
     <<[name |-> OtherName, id |-> 2]>>,
     <<[name |-> ConfigName, id |-> 1]>>,
     <<[name |-> OtherName, id |-> 2], [name |-> ConfigName, id |-> 1],
       [name |-> ConfigName, id |-> 3]>>}

\* lines 227-234: the first configuration of that name, 0 when there is none
RECURSIVE FirstConfigNamed(_, _)
FirstConfigNamed(configs, config_name) ==
    IF configs = << >> THEN 0
    ELSE IF Head(configs).name = config_name THEN Head(configs).id
    ELSE FirstConfigNamed(Tail(configs), config_name)

\* Faulty variant: a failing GET is read as an empty list of configurations.
get_code_security_config_id_lenient(out, configs, owner, config_name) ==
    IF out.raised
    THEN IF out.error \in RequestExceptions
         THEN Raised("get_code_security_config_id", "CodeSecurityConfigRetrievalError")
         ELSE Raised("get_code_security_config_id", out.error)
    ELSE IF RaisesForStatus(out.status_code)
            \/ FirstConfigNamed(configs, config_name) = 0
    THEN RaisedFor("get_code_security_config_id", "CodeSecurityConfigNotFoundError",
                   <<owner, config_name>>)
    ELSE Returned("get_code_security_config_id",
                  [NoValue EXCEPT !.int = FirstConfigNamed(configs, config_name)])

\* lines 204-238, given how safe_get_request ended and the list it returned
get_code_security_config_id(out, configs, owner, config_name) ==
    IF out.raised
    THEN IF out.error \in RequestExceptions
         THEN Raised("get_code_security_config_id", "CodeSecurityConfigRetrievalError")
         ELSE Raised("get_code_security_config_id", out.error)
    ELSE IF RaisesForStatus(out.status_code)
    THEN Raised("get_code_security_config_id", "CodeSecurityConfigRetrievalError")
    ELSE IF FirstConfigNamed(configs, config_name) = 0
    THEN RaisedFor("get_code_security_config_id", "CodeSecurityConfigNotFoundError",
                   <<owner, config_name>>)
    ELSE Returned("get_code_security_config_id",
                  [NoValue EXCEPT !.int = FirstConfigNamed(configs, config_name)])

\* lines 240-262
get_code_security_config(out) ==
    IF out.raised
    THEN IF out.error \in RequestExceptions
         THEN Raised("get_code_security_config", "CodeSecurityConfigRetrievalError")
         ELSE Raised("get_code_security_config", out.error)
    ELSE IF RaisesForStatus(out.status_code)
    THEN Raised("get_code_security_config", "CodeSecurityConfigRetrievalError")
    ELSE Returned("get_code_security_config", NoValue)

AttachOk == 202

\* Faulty variant: every status below 400 counts as success.
attach_config_to_repos_any_2xx(out) ==
    IF out.raised THEN Raised("attach_config_to_repos", out.error)
    ELSE IF RaisesForStatus(out.status_code)
    THEN Raised("attach_config_to_repos", "HTTPError")
    ELSE Returned("attach_config_to_repos", NoValue)

\* Faulty variant: the status of the attach response is not looked at.
attach_config_to_repos_unchecked(out) ==
    IF out.raised THEN Raised("attach_config_to_repos", out.error)
    ELSE Returned("attach_config_to_repos", NoValue)

\* lines 295-302
attach_config_to_repos(out) ==
    IF out.raised THEN Raised("attach_config_to_repos", out.error)
    ELSE IF RaisesForStatus(out.status_code)
    THEN Raised("attach_config_to_repos", "HTTPError")
    ELSE IF out.status_code # AttachOk
    THEN Raised("attach_config_to_repos", "CodeSecurityConfigAttachReposError")
    ELSE Returned("attach_config_to_repos", NoValue)

\* The CSV file: what read_csv_file meets, and the Repo column when it reads.
RepoNames == {"a", "b"}
RepoLists == UNION {[1..n -> RepoNames] : n \in 0..MaxRepos}

CsvProblems ==
    {"blank path", "no file", "empty file", "parse error", "no Repo column",
     "other error"}

NoCsv == [state |-> "ok", repos |-> << >>]

CsvFiles ==
    {[state |-> "ok", repos |-> l] : l \in RepoLists}
      \cup {[state |-> p, repos |-> << >>] : p \in CsvProblems}

\* lines 77-117.  CSVFileNotFoundError, CSVFileEmptyError and
\* CSVFileParseError pass one argument to CSVFileError.__init__, which takes
\* two (lines 57, 63, 75): constructing them raises TypeError.
get_repo_names_from_csv(file) ==
    CASE file.state = "ok" ->
           Returned("get_repo_names_from_csv", NoValue)
      [] file.state = "blank path" ->
           Raised("get_repo_names_from_csv", "CSVFileNoPathError")
      [] file.state \in {"no file", "empty file", "parse error"} ->
           Raised("get_repo_names_from_csv", "TypeError")
      [] file.state = "no Repo column" ->
           Raised("get_repo_names_from_csv", "CSVFileColumnsError")
      [] file.state = "other error" ->
           Raised("get_repo_names_from_csv", "CSVFileError")

\* Faulty variant: integer division, which drops the last, shorter batch.
floor_of_division(n, b) ==
    IF b > 0 THEN n \div b ELSE -((n + (-b) - 1) \div (-b))

\* ceil(n / b) of line 378, for b # 0 (b = 0 raises ZeroDivisionError)
ceil_of_division(n, b) ==
    IF b > 0 THEN (n + b - 1) \div b ELSE -(n \div (-b))

\* repo_names[start_idx:end_idx] of line 389, for 0 <= start_idx: the items
\* at the 0-based places start_idx .. end_idx - 1 that exist.
Slice(list, start_idx, end_idx) ==
    SubSeq(list, start_idx + 1, IF end_idx < Len(list) THEN end_idx ELSE Len(list))

\* The id GitHub gives for a repository.
RepoId(repo_name) == IF repo_name = "a" THEN 11 ELSE 12

\* repo_ids[repo_name] = id, line 331: a dict keeps the place of a key it has.
DictSet(dict, key, value) ==
    IF \E k \in 1..Len(dict) : dict[k].key = key
    THEN [k \in 1..Len(dict) |->
            IF dict[k].key = key THEN [key |-> key, value |-> value] ELSE dict[k]]
    ELSE Append(dict, [key |-> key, value |-> value])

\* list(batch_repos.values()), line 400
DictValues(dict) == [k \in 1..Len(dict) |-> dict[k].value]

NoNumber == [num |-> 0, den |-> 1]

NoMain ==
    [pc |-> "parse_args", argv_ok |-> TRUE, exit_status |-> -1,
     error |-> "none", error_key |-> << >>, completed |-> FALSE,
     lookups |-> << >>,
     base64_encoded_pat |-> << >>, api_timeout_seconds |-> NoNumber,
     batch_size |-> 0, configuration_id |-> 0, repo_names |-> << >>,
     num_batches |-> 0, i |-> 0, batch_repo_names |-> << >>, j |-> 0,
     repo_ids |-> << >>, batches |-> << >>]

\* lines 412-415
Fail(m, error) ==
    [m EXCEPT !.pc = "exited", !.exit_status = 1, !.error = error]

\* The exception was constructed with the arguments `key`.
FailFor(m, error, key) == [Fail(m, error) EXCEPT !.error_key = key]

\* One entry of the log of calls: a call of safe_get_request or
\* safe_post_request that has not returned yet (`batch` is i of line 380, -1
\* before the loop).
Request(method, what, name, ids, batch) ==
    [method |-> method, what |-> what, name |-> name, ids |-> ids,
     batch |-> batch, done |-> FALSE, raised |-> FALSE, status_code |-> 0]

\* The call being made has not returned.
AwaitingResponse(log) == log # << >> /\ ~log[Len(log)].done

\* The call being made ends with `out`.
Answered(log, out) ==
    [log EXCEPT ![Len(log)] =
        [@ EXCEPT !.done = TRUE, !.raised = out.raised,
                  !.status_code = out.status_code]]

\* The call the script makes where it stands: lines 222, 255, 328 and 295.
RequestOf(m) ==
    CASE m.pc = "get_config_id" -> Request("GET", "configurations", "", << >>, -1)
      [] m.pc = "get_config" -> Request("GET", "configuration", "", << >>, -1)
      [] m.pc = "repo" ->
            Request("GET", "repo", m.batch_repo_names[m.j + 1], << >>, m.i)
      [] m.pc = "attach" ->
            Request("POST", "attach", "", DictValues(m.repo_ids), m.i)

-----------------------------------------------------------------------------
(* Part 4 (specification SpecTopics): python/github/                        *)
(* github_repo_add_topics.py, lines 105-245.  A call of its safe_get_request *)
(* or safe_put_request is one step; Part 6 models the two functions.         *)

MaxRows == 2             \* most rows of the CSV file of the topics script
MaxCellLen == 3          \* longest text of a Topics cell

\* A topic is a string; the cells are written with these characters.
TopicChars == {"a", "b", ";"}

CellStrings == UNION {[1..k -> TopicChars] : k \in 0..MaxCellLen}

\* row['Topics'] as pandas gives it: NaN for an empty cell, a number for a
\* cell of digits in a numeric column, the text otherwise.
NaN == [kind |-> "nan", str |-> << >>]
Number == [kind |-> "num", str |-> << >>]
Text(str) == [kind |-> "str", str |-> str]

Cells == {NaN, Number} \cup {Text(str) : str \in CellStrings}

\* The place of the first ';' of str, 0 when it has none.
RECURSIVE FirstSemicolon(_, _)
FirstSemicolon(str, k) ==
    IF k > Len(str) THEN 0
    ELSE IF str[k] = ";" THEN k
    ELSE FirstSemicolon(str, k + 1)

\* str.split(';'), line 115
RECURSIVE SplitOnSemicolon(_)
SplitOnSemicolon(str) ==
    LET k == FirstSemicolon(str, 1) IN
      IF k = 0 THEN <<str>>
      ELSE <<SubSeq(str, 1, k - 1)>>
             \o SplitOnSemicolon(SubSeq(str, k + 1, Len(str)))

\* lines 105-115, for a cell that is NaN or a text (a number has no split)
split_topics(topics_str) ==
    IF topics_str.kind = "nan" \/ topics_str.str = << >> THEN << >>
    ELSE SplitOnSemicolon(topics_str.str)

\* set(list)
ToSet(list) == {list[k] : k \in 1..Len(list)}

\* list(a_set): its members, each once, in an order the interpreter chooses.
ListsOf(S) == {l \in [1..Cardinality(S) -> S] : ToSet(l) = S}

\* Faulty variant: the test of line 194 compares the two lists.
all_topics_listed_alike(current_topics, new_topics) == new_topics = current_topics

\* line 194: set(new_topics).issubset(set(current_topics))
all_topics_exist(current_topics, new_topics) ==
    ToSet(new_topics) \subseteq ToSet(current_topics)

\* Faulty variant: the new topics replace the ones the repository has.
replaced_topics(current_topics, new_topics) == ListsOf(ToSet(new_topics))

\* Faulty variant: the two lists are joined as they are, duplicates kept.
joined_topics(current_topics, new_topics) == {current_topics \o new_topics}

\* line 199: the lists list(set(current_topics + new_topics)) may be
merged_topics(current_topics, new_topics) ==
    ListsOf(ToSet(current_topics \o new_topics))

\* The topics a repository may have: response.json().get('names', []).
CurrentTopics ==
    {<< >>, << <<"a">> >>, << <<"b">>, <<"a">> >>, << <<"c">> >>}

\* How a call of safe_get_request / safe_put_request of this script ends: a
\* response that is not rate limited, or an exception (no connection; the
\* recursion of lines 93 and 102 too deep).
TopicStatuses == {200, 404, 500}
TopicCallErrors == {"ConnectionError", "RecursionError"}
TopicOutcomes ==
    {Answer(st) : st \in TopicStatuses} \cup {Throws(e) : e \in TopicCallErrors}

\* What read_csv_file meets.  CSVFileNotFoundError, CSVFileEmptyError and
\* CSVFileParseError pass one argument to CSVFileError.__init__, which takes
\* two (lines 25, 31, 43): constructing them raises TypeError.
TopicCsvProblems ==
    {"blank path", "no file", "empty file", "parse error", "missing columns",
     "other error"}

\* lines 45-73
read_csv_file(state) ==
    CASE state = "ok" -> Returned("read_csv_file", NoValue)
      [] state = "blank path" -> Raised("read_csv_file", "CSVFileNoPathError")
      [] state \in {"no file", "empty file", "parse error"} ->
           Raised("read_csv_file", "TypeError")
      [] state = "missing columns" ->
           Raised("read_csv_file", "CSVFileColumnsError")
      [] state = "other error" -> Raised("read_csv_file", "CSVFileError")

\* The script before it starts: where it stands, how it ended, the CSV file,
\* the locals of process_csv and add_topics_to_repo, and the log of its calls.
NoTopics ==
    [pc |-> "idle", exit_status |-> -1, error |-> "none", completed |-> FALSE,
     csv |-> "ok", nrows |-> 0, index |-> 0, new_topics |-> << >>,
     current_topics |-> << >>, updated_topics |-> << >>, log |-> << >>]

\* lines 242-245
TopicsFail(t, error) ==
    [t EXCEPT !.pc = "exited", !.exit_status = 1, !.error = error]

\* One entry of the log: the call made for the row `index`, and how it ended.
TopicsCall(method, index, out) ==
    [method |-> method, index |-> index, raised |-> out.raised,
     status_code |-> out.status_code]

\* The next turn of the loop of line 214.
TopicsNextRow(t) ==
    [t EXCEPT !.pc = "row", !.index = @ + 1]

-----------------------------------------------------------------------------
(* Part 5 (specification SpecAdo): python/ado/ado_repo_information.py, a    *)
(* script without functions around its requests: lines 19-125, with         *)
(* CATEGORY_LABEL_LANGUAGE and CATEGORY_LABEL_TEAM left at their default.   *)

MaxProjects == 2         \* most projects of the organization
MaxAdoRepos == 2         \* most repositories of a project

\* How requests.get ends: a response, or an exception (no connection).
AdoStatuses == {200, 404, 500}
AdoOutcomes == {Answer(st) : st \in AdoStatuses} \cup {Throws("ConnectionError")}

\* The script before it starts.  `failures` counts the requests that came
\* back with another status than 200, `rows` is len(repositories_data).
NoAdo ==
    [pc |-> "idle", exit_status |-> -1, error |-> "none", failures |-> 0,
     completed |-> FALSE, pat_set |-> TRUE, nprojects |-> 0, p |-> 0,
     nrepos |-> 0, q |-> 0, rows |-> 0]

\* An exception nobody catches: the interpreter prints the traceback and
\* exits with status 1.
AdoCrash(a, error) ==
    [a EXCEPT !.pc = "exited", !.exit_status = 1, !.error = error]

\* A response that is not 200 has been met.
AdoFailure(a) == [a EXCEPT !.failures = @ + 1]

\* The end of one turn of the loop of line 83.
AdoNextRepo(a) ==
    IF a.q + 1 < a.nrepos
    THEN [a EXCEPT !.pc = "commits", !.q = @ + 1]
    ELSE [a EXCEPT !.pc = "project", !.p = @ + 1]

-----------------------------------------------------------------------------
(* Part 6 (specification SpecHelper): safe_get_request and safe_put_request *)
(* of github_repo_add_topics.py, lines 75-103; the two have the same body,  *)
(* and so has safe_get_request of github_repo_information.py, lines 72-91.  *)
(* get_rate_limit_reset_time and wait_for_rate_limit_reset are, line for    *)
(* line, those of Part 1.  The functions take no timeout; timeout_seconds   *)
(* is here the time a caller is ready to wait, which they never read.       *)

\* The depth at which the interpreter refuses one more call (1000 frames by
\* default) and raises RecursionError.
RecursionLimit == 4

\* The frame of the outermost call: what the source holds (response), where
\* the call stands (pc, sleeping, depth, error), and what an observer notes:
\* the clock at the call and at the last response, the waits, the requests.
NoCall ==
    [pc |-> "idle", method |-> "GET", called_at |-> 0, current_time |-> 0,
     response |-> NoResponse, sleeping |-> 0, waits |-> << >>, nreq |-> 0,
     depth |-> 0, error |-> "none"]

\* The test of lines 90 and 99.
HeaderSaysRateLimited(response) ==
    /\ response.status_code = 403
    /\ response.remaining # "absent"
    /\ response.remaining = "0"

HelperCalled(f, method, t) ==
    [f EXCEPT !.pc = "request", !.method = method, !.called_at = t, !.depth = 1]

\* lines 89 and 98
HelperReceive(f, resp, t) ==
    [f EXCEPT !.pc = "check", !.response = resp, !.current_time = t,
              !.nreq = @ + 1]

\* lines 93 and 102: the function calls itself
Recurse(f) ==
    IF f.depth >= RecursionLimit THEN Raise(f, "RecursionError")
    ELSE [f EXCEPT !.pc = "request", !.sleeping = 0, !.depth = @ + 1]

\* lines 90-94 and 99-103, up to the sleep of line 85
HelperHandle(f, t) ==
    IF HeaderSaysRateLimited(f.response)
    THEN IF ResetTimeRaises(f.response)
         THEN Raise(f, "ValueError")
         ELSE LET secs == wait_for_rate_limit_reset(
                              get_rate_limit_reset_time(f.response), t)
                  g == [f EXCEPT !.waits = Append(@, secs)]
              IN  IF secs > 0 THEN [g EXCEPT !.pc = "sleep", !.sleeping = secs]
                  ELSE Recurse(g)
    ELSE [f EXCEPT !.pc = "returned"]

\* time.sleep of line 85 returns
HelperWake(f) == Recurse(f)

-----------------------------------------------------------------------------
(* Part 7 (specification SpecRerun): add_topics_to_repo of                  *)
(* github_repo_add_topics.py, lines 176-204, called twice with the same     *)
(* new_topics for one repository, whose server answers every request with   *)
(* 200, returns the topics it holds and stores the names a PUT sends.       *)

\* The two calls before the first: where the call stands (pc, run), its
\* argument and locals, the topics the server holds (stored) and held when
\* the run began (at_start), and the log of the requests.
NoTwice ==
    [pc |-> "idle", run |-> 0, new_topics |-> << >>, current_topics |-> << >>,
     updated_topics |-> << >>, stored |-> << >>, at_start |-> << >>,
     log |-> << >>]

\* One request of a run: the topics the GET returned or the PUT sent.
TopicsRequest(method, run, names) ==
    [method |-> method, run |-> run, names |-> names]

\* `return`: the first call is followed by the second.
TwiceReturn(t) ==
    IF t.run = 1
    THEN [t EXCEPT !.pc = "start", !.run = 2, !.at_start = t.stored,
                   !.current_topics = << >>, !.updated_topics = << >>]
    ELSE [t EXCEPT !.pc = "done"]

-----------------------------------------------------------------------------
(* Part 8 (specification SpecInfo): the pagination loop and the export of   *)
(* python/github/github_repo_information.py, lines 137-181.  A call of       *)
(* safe_get_request is one step here; Part 6 models the function.           *)

MaxPages == 2            \* most pages the server has before an empty one

PerPage == 3             \* per_page of line 140

\* How a call of safe_get_request ends: a response that is not rate limited,
\* or an exception (no connection; the recursion of line 90 too deep).
InfoStatuses == {200, 404, 500}
InfoOutcomes ==
    {Answer(st) : st \in InfoStatuses}
      \cup {Throws(e) : e \in {"ConnectionError", "RecursionError"}}

\* The script at line 137: the locals of the loop (page, num_repos, the repos
\* of the page as their number `size`, the place k in them), the length of
\* repositories_data (rows), how it ended, and what an observer notes: the
\* pages requested and the repositories given to get_repository_data.
NoInfo ==
    [pc |-> "idle", page |-> 1, num_repos |-> 0, size |-> 0, k |-> 0,
     rows |-> 0, exit_status |-> -1, error |-> "none", exported |-> FALSE,
     exported_rows |-> 0, requested |-> << >>, processed |-> << >>]

\* One request of a page and how it ended (`size` is len(response.json())).
PageRequest(page, out, size) ==
    [page |-> page, raised |-> out.raised, status_code |-> out.status_code,
     size |-> size]

\* An exception nobody catches: traceback, status 1, no export.
InfoCrash(i, error) ==
    [i EXCEPT !.pc = "exited", !.exit_status = 1, !.error = error]

\* Faulty variant: the page number is not advanced.
same_page(page) == page

\* line 156
next_page(page) == page + 1

-----------------------------------------------------------------------------
(* Part 9 (specification SpecRows): the rows and the columns of the four    *)
(* repo-information scripts: python/github_repo_information.py (lines       *)
(* 108-133), python/github/github_repo_information.py (lines 112-170),      *)
(* python/ado/ado_repo_information.py (lines 98-122) and                    *)
(* python/repo_information.py (lines 63-68).  A field is written by what    *)
(* it holds.                                                                *)

MaxDataRows == 2         \* most rows appended to repositories_data

InfoScripts ==
    {"github_repo_information.py", "github/github_repo_information.py",
     "ado/ado_repo_information.py", "repo_information.py"}

\* The scripts that keep team_owner_dict, filled from the earlier Excel file
\* only when CATEGORY_LABEL_TEAM is set.
KeepsTeamDict(script) ==
    script \in {"github_repo_information.py", "github/github_repo_information.py"}

OnlyIf(flag, fields) == IF flag THEN fields ELSE << >>

\* python/github_repo_information.py, lines 108-119: the else of line 117
\* belongs to `CATEGORY_LABEL_TEAM and repo_name in team_owner_dict`
root_github_repo_data(team, language, in_dict) ==
    <<"repo_name", "size", "last_commit_date">>
      \o OnlyIf(language, <<"languages">>)
      \o (IF team /\ in_dict THEN <<"team", "owner">> ELSE <<"N/A", "N/A">>)

\* python/github/github_repo_information.py, lines 112-126
github_repo_data(team, language, in_dict) ==
    <<"repo_name", "size", "last_commit_date">>
      \o OnlyIf(language, <<"languages">>)
      \o OnlyIf(team, IF in_dict THEN <<"team", "owner">> ELSE <<"N/A", "N/A">>)

\* python/ado/ado_repo_information.py, lines 98-108
ado_repo_data(team, language) ==
    <<"project_name", "repo_name", "size", "last_commit_date">>
      \o OnlyIf(language, <<"languages">>)
      \o OnlyIf(team, <<"team_name", "owner">>)

\* python/repo_information.py, line 63
plain_repo_data == <<"project_name", "repo_name", "size", "last_commit_date">>

\* The row a script appends for one repository.
repo_data(script, team, language, in_dict) ==
    CASE script = "github_repo_information.py" ->
           root_github_repo_data(team, language, in_dict)
      [] script = "github/github_repo_information.py" ->
           github_repo_data(team, language, in_dict)
      [] script = "ado/ado_repo_information.py" -> ado_repo_data(team, language)
      [] script = "repo_information.py" -> plain_repo_data

\* The column list of each script: lines 126-130, 162-166, 115-119 and 68.
columns(script, team, language) ==
    IF script = "repo_information.py"
    THEN <<"Project Name", "Repository Name", "Size in Bytes", "Last Commit Date">>
    ELSE (IF script = "ado/ado_repo_information.py"
          THEN <<"Project Name", "Repository Name", "Size in Bytes",
                 "Last Commit Date">>
          ELSE <<"Repository Name", "Size in KB", "Last Commit Date">>)
           \o OnlyIf(language, <<"Languages">>)
           \o OnlyIf(team, <<"Team Name", "Owner">>)

\* pd.DataFrame(repositories_data, columns=columns) raises ValueError when a
\* row has another number of fields than there are columns.
DataFrameRaises(data, cols) == \E k \in 1..Len(data) : Len(data[k]) # Len(cols)

\* A script before its loop: the two flags, repositories_data, the columns,
\* and how it ended.
NoRow ==
    [pc |-> "idle", script |-> "", team |-> FALSE, language |-> FALSE,
     repositories_data |-> << >>, columns |-> << >>, exit_status |-> -1,
     error |-> "none"]

-----------------------------------------------------------------------------
(* Part 10 (specification SpecPipe): process_organization of                *)
(* python/ado/ado_pipeline_source_update.py, lines 104-123, with the        *)
(* helpers of lines 26-102.  Every helper catches its own failure, logs it  *)
(* and returns ([] for the three listings, None for clone_repo and for the  *)
(* others), so the log below keeps, for each call, whether it failed.  The  *)
(* repositories of all projects are numbered 1, 2, ... in the order of the  *)
(* two nested loops.                                                        *)

MaxPipeRepos == 2            \* most repositories of the organization
MaxYaml == 2             \* most .yml files listed for a repository

PipeOps ==
    {"get_yaml_files", "clone_repo", "update_yaml_content", "push_changes",
     "create_pull_request"}

\* One call of a helper for repository `repo`: ok is FALSE when the helper
\* logged "Failed to ..."; files is the number of .yml items a listing returned.
PipeCall(repo, op, ok, files) ==
    [repo |-> repo, op |-> op, ok |-> ok, files |-> files]

\* process_organization before get_projects: the number of repositories,
\* the repository of the inner loop, its yaml_files, the files updated so
\* far, the calls made.
NoPipe ==
    [pc |-> "idle", repos |-> 0, repo |-> 0, yaml_files |-> 0, k |-> 0,
     calls |-> << >>]

\* Lines 110 and 106: the next repo of the loops, or the end of them.
NextRepo(p) ==
    IF p.repo < p.repos
    THEN [p EXCEPT !.pc = "get_yaml_files", !.repo = @ + 1, !.yaml_files = 0,
                   !.k = 0]
    ELSE [p EXCEPT !.pc = "done"]

-----------------------------------------------------------------------------
(* get_code_security_config_id applied to what safe_get_request gave.       *)

\* Every list of up to three configurations.
MaxConfigs == 3

Configs == [name : {ConfigName, OtherName}, id : 1..MaxConfigs]

AllConfigLists == UNION {[1..n -> Configs] : n \in 0..MaxConfigs}

NoArgs == [out |-> Answer(200), configs |-> << >>]

\* The parts of the state a specification does not use stay as they are.
Unused == twice = NoTwice /\ info = NoInfo /\ row = NoRow /\ pipe = NoPipe

Idle ==
    /\ args = NoArgs /\ call = NoCall /\ topics = NoTopics /\ ado = NoAdo
    /\ Unused

-----------------------------------------------------------------------------
(* The two calls against one server. *)

Timeouts == {0, 3, MaxTimeout}

Init ==
    /\ now = EpochStart * TicksPerSecond
    /\ timeout_seconds \in Timeouts
    /\ get = GetIdle
    /\ post = PostIdle
    /\ served = << >>
    /\ env = NoEnv
    /\ cfg = NoLookup
    /\ csv = NoCsv /\ main = NoMain /\ http = << >>
    /\ Idle

Running(f) == f.pc \in {"request", "check", "sleep"}

\* Both functions are called.
Call ==
    /\ get.pc = "idle" /\ post.pc = "idle"
    /\ get' = GetCall(get, now)
    /\ post' = PostCall(post, now)
    /\ UNCHANGED <<moreVars, otherVars, now, timeout_seconds, served, env, cfg, scriptVars>>

\* The server answers the request in flight after `lat` ticks.
Respond ==
    \E lat \in 0..MaxLatency :
      \E resp \in Responses(now + lat) :
        /\ get.pc = "request" \/ post.pc = "request"
        /\ Len(served) < MaxRequests
        /\ now' = now + lat
        /\ served' = Append(served, resp)
        /\ get' = IF get.pc = "request" THEN GetReceive(get, resp, now') ELSE get
        /\ post' = IF post.pc = "request" THEN PostReceive(post, resp, now') ELSE post
        /\ UNCHANGED <<moreVars, otherVars, timeout_seconds, env, cfg, scriptVars>>

\* requests.get / requests.post raises (no connection): the exception leaves
\* the function.
RequestFails ==
    /\ get.pc = "request" \/ post.pc = "request"
    /\ get' = IF get.pc = "request" THEN Raise(get, "RequestException") ELSE get
    /\ post' = IF post.pc = "request" THEN Raise(post, "RequestException") ELSE post
    /\ UNCHANGED <<moreVars, otherVars, now, timeout_seconds, served, env, cfg, scriptVars>>

\* The code after the response runs to its return, raise or sleep.
Handle ==
    /\ get.pc = "check" \/ post.pc = "check"
    /\ get' = IF get.pc = "check" THEN GetHandle(get, now, timeout_seconds) ELSE get
    /\ post' = IF post.pc = "check" THEN PostHandle(post, now, timeout_seconds) ELSE post
    /\ UNCHANGED <<moreVars, otherVars, now, timeout_seconds, served, env, cfg, scriptVars>>

SleepTicks ==
    LET g == IF get.pc = "sleep" THEN get.sleeping ELSE 0
        p == IF post.pc = "sleep" THEN post.sleeping ELSE 0
    IN  (IF g > p THEN g ELSE p) * TicksPerSecond

\* The sleep in progress ends.
Wake ==
    /\ get.pc = "sleep" \/ post.pc = "sleep"
    /\ now' = now + SleepTicks
    /\ get' = IF get.pc = "sleep" THEN GetWake(get) ELSE get
    /\ post' = IF post.pc = "sleep" THEN PostWake(post) ELSE post
    /\ UNCHANGED <<moreVars, otherVars, timeout_seconds, served, env, cfg, scriptVars>>

Next == Call \/ Respond \/ RequestFails \/ Handle \/ Wake

Spec == Init /\ [][Next]_vars

-----------------------------------------------------------------------------
(* The configuration lookups, each applied to the environment. *)

\* One variable is set to any string, or none is set.
InitConfig ==
    /\ now = 0 /\ timeout_seconds = 0
    /\ get = GetIdle /\ post = PostIdle /\ served = << >>
    /\ env \in {NoEnv} \cup
               {[NoEnv EXCEPT ![n] = SetTo(str)] :
                    n \in Names, str \in Strings(MaxEnvLen)}
    /\ cfg = NoLookup
    /\ csv = NoCsv /\ main = NoMain /\ http = << >>
    /\ Idle

LookUpVariable ==
    \E n \in Names :
      /\ cfg' = get_environment_variable_or_raise(env, n)
      /\ UNCHANGED <<moreVars, otherVars, clientVars, env, scriptVars>>

LookUpBatchSize ==
    /\ cfg' = get_repo_batch_size(env)
    /\ UNCHANGED <<moreVars, otherVars, clientVars, env, scriptVars>>

LookUpTimeout ==
    /\ cfg' = get_api_timeout_seconds(env)
    /\ UNCHANGED <<moreVars, otherVars, clientVars, env, scriptVars>>

NextConfig == LookUpVariable \/ LookUpBatchSize \/ LookUpTimeout

SpecConfig == InitConfig /\ [][NextConfig]_vars


-----------------------------------------------------------------------------
(* The script, from its first line to its exit. *)

Str(c) == SetTo(<<c>>)

MainEnvs ==
    {[GITHUB_PAT |-> pat, BATCH_SIZE |-> size, API_TIMEOUT_SECONDS |-> secs] :
        pat \in {Unset, SetTo(<< >>), Str("x")},
        size \in {Unset, Str("3"), Str("0"), Str("x"), SetTo(<<"-", "3">>),
                  SetTo(<<"3", "0">>)},
        secs \in {Unset, Str("x")}}

InitMain ==
    /\ now = 0 /\ timeout_seconds = 0
    /\ get = GetIdle /\ post = PostIdle /\ served = << >>
    /\ cfg = NoLookup
    /\ env \in MainEnvs
    /\ csv \in CsvFiles
    /\ main \in {[NoMain EXCEPT !.argv_ok = ok] : ok \in BOOLEAN}
    /\ http = << >>
    /\ Idle

\* line 346: argparse prints the usage and exits with status 2 on a wrong
\* command line (SystemExit is not an Exception: line 412 does not catch it).
ParseArgs ==
    /\ main.pc = "parse_args"
    /\ main' = IF main.argv_ok
               THEN [main EXCEPT !.pc = "get_pat"]
               ELSE [main EXCEPT !.pc = "exited", !.exit_status = 2,
                                 !.error = "SystemExit"]
    /\ UNCHANGED <<moreVars, otherVars, clientVars, env, cfg, csv, http>>

\* line 355
GetPat ==
    /\ main.pc = "get_pat"
    /\ LET r == get_base64_encoded_pat(env)
           m == [main EXCEPT !.lookups = Append(@, "GITHUB_PAT")]
       IN  main' = IF r.ok
                   THEN [m EXCEPT !.pc = "get_timeout",
                                  !.base64_encoded_pat = r.value.str]
                   ELSE Fail(m, r.error)
    /\ UNCHANGED <<moreVars, otherVars, clientVars, env, cfg, csv, http>>

\* line 357
GetTimeout ==
    /\ main.pc = "get_timeout"
    /\ LET r == get_api_timeout_seconds(env)
           m == [main EXCEPT !.lookups = Append(@, "API_TIMEOUT_SECONDS")]
       IN  main' = IF r.ok
                   THEN [m EXCEPT !.pc = "get_batch_size",
                                  !.api_timeout_seconds =
                                      [num |-> r.value.num, den |-> r.value.den]]
                   ELSE Fail(m, r.error)
    /\ UNCHANGED <<moreVars, otherVars, clientVars, env, cfg, csv, http>>

\* line 359
GetBatchSize ==
    /\ main.pc = "get_batch_size"
    /\ LET r == get_repo_batch_size(env)
           m == [main EXCEPT !.lookups = Append(@, "BATCH_SIZE")]
       IN  main' = IF r.ok
                   THEN [m EXCEPT !.pc = "get_config_id",
                                  !.batch_size = r.value.int]
                   ELSE Fail(m, r.error)
    /\ UNCHANGED <<moreVars, otherVars, clientVars, env, cfg, csv, http>>

\* lines 222, 255, 328, 295: the script calls safe_get_request or
\* safe_post_request and waits for it to return.
SendRequest ==
    /\ main.pc \in {"get_config_id", "get_config", "repo", "attach"}
    /\ main.pc = "repo" => main.j < Len(main.batch_repo_names)
    /\ ~AwaitingResponse(http)
    /\ http' = Append(http, RequestOf(main))
    /\ UNCHANGED <<moreVars, otherVars, clientVars, env, cfg, csv, main>>

\* lines 361-366, from the return of safe_get_request
GetConfigId ==
    /\ main.pc = "get_config_id"
    /\ AwaitingResponse(http)
    /\ \E out \in ConfigOutcomes, configs \in ConfigLists :
         LET r == get_code_security_config_id(out, configs, Owner, ConfigName) IN
           /\ http' = Answered(http, out)
           /\ main' = IF r.ok
                      THEN [main EXCEPT !.pc = "get_config",
                                        !.configuration_id = r.value.int]
                      ELSE FailFor(main, r.error, r.key)
    /\ UNCHANGED <<moreVars, otherVars, clientVars, env, cfg, csv>>

\* lines 368-373, from the return of safe_get_request
GetConfig ==
    /\ main.pc = "get_config"
    /\ AwaitingResponse(http)
    /\ \E out \in ConfigOutcomes :
         LET r == get_code_security_config(out) IN
           /\ http' = Answered(http, out)
           /\ main' = IF r.ok THEN [main EXCEPT !.pc = "read_csv"]
                      ELSE Fail(main, r.error)
    /\ UNCHANGED <<moreVars, otherVars, clientVars, env, cfg, csv>>

\* line 375
ReadCsv ==
    /\ main.pc = "read_csv"
    /\ LET r == get_repo_names_from_csv(csv) IN
         main' = IF r.ok
                 THEN [main EXCEPT !.pc = "count_batches", !.repo_names = csv.repos]
                 ELSE Fail(main, r.error)
    /\ UNCHANGED <<moreVars, otherVars, clientVars, env, cfg, csv, http>>

\* line 378
CountBatches ==
    /\ main.pc = "count_batches"
    /\ main' = IF main.batch_size = 0
               THEN Fail(main, "ZeroDivisionError")
               ELSE [main EXCEPT !.pc = "batch", !.i = 0,
                        !.num_batches =
                            ceil_of_division(Len(main.repo_names), main.batch_size)]
    /\ UNCHANGED <<moreVars, otherVars, clientVars, env, cfg, csv, http>>

\* lines 380-391 and 320, or the end of the loop and line 410
NextBatch ==
    /\ main.pc = "batch"
    /\ main' =
         IF main.i < main.num_batches
         THEN LET start_idx == main.i * main.batch_size
                  end_idx == start_idx + main.batch_size
                  batch == Slice(main.repo_names, start_idx, end_idx)
              IN  [main EXCEPT !.pc = "repo", !.batch_repo_names = batch,
                               !.j = 0, !.repo_ids = << >>,
                               !.batches = Append(@, batch)]
         ELSE [main EXCEPT !.pc = "exited", !.exit_status = 0,
                           !.completed = TRUE]
    /\ UNCHANGED <<moreVars, otherVars, clientVars, env, cfg, csv, http>>

\* Faulty variant: a name whose GET does not return 200 is left out and the
\* loop goes on.
GetRepoIdSkipsMissing ==
    /\ main.pc = "repo"
    /\ main.j < Len(main.batch_repo_names)
    /\ AwaitingResponse(http)
    /\ LET repo_name == main.batch_repo_names[main.j + 1] IN
         \E out \in RepoOutcomes :
           /\ http' = Answered(http, out)
           /\ main' =
                IF out.raised THEN Fail(main, out.error)
                ELSE IF out.status_code = 200
                THEN [main EXCEPT !.j = @ + 1,
                         !.repo_ids = DictSet(@, repo_name, RepoId(repo_name))]
                ELSE [main EXCEPT !.j = @ + 1]
    /\ UNCHANGED <<moreVars, otherVars, clientVars, env, cfg, csv>>

\* lines 321-334: one turn of the loop of get_repo_ids_from_names, from the
\* return of safe_get_request
GetRepoId ==
    /\ main.pc = "repo"
    /\ main.j < Len(main.batch_repo_names)
    /\ AwaitingResponse(http)
    /\ LET repo_name == main.batch_repo_names[main.j + 1] IN
         \E out \in RepoOutcomes :
           /\ http' = Answered(http, out)
           /\ main' =
                IF out.raised THEN Fail(main, out.error)
                ELSE IF out.status_code = 200
                THEN [main EXCEPT !.j = @ + 1,
                         !.repo_ids = DictSet(@, repo_name, RepoId(repo_name))]
                ELSE FailFor(main, "RepositoryNotFoundError",
                             <<repo_name, Owner>>)
    /\ UNCHANGED <<moreVars, otherVars, clientVars, env, cfg, csv>>

\* Faulty variant: the loop of get_repo_ids_from_names is left after its
\* first name.
ReposDoneAfterFirst ==
    /\ main.pc = "repo"
    /\ main.j >= 1
    /\ ~AwaitingResponse(http)
    /\ main' = [main EXCEPT !.pc = "attach"]
    /\ UNCHANGED <<moreVars, otherVars, clientVars, env, cfg, csv, http>>

\* line 335: the loop of get_repo_ids_from_names is over
ReposDone ==
    /\ main.pc = "repo"
    /\ main.j >= Len(main.batch_repo_names)
    /\ main' = [main EXCEPT !.pc = "attach"]
    /\ UNCHANGED <<moreVars, otherVars, clientVars, env, cfg, csv, http>>

\* lines 400-409, from the return of safe_post_request
Attach ==
    /\ main.pc = "attach"
    /\ AwaitingResponse(http)
    /\ \E out \in PostOutcomes :
         LET r == attach_config_to_repos(out) IN
           /\ http' = Answered(http, out)
           /\ main' = IF r.ok THEN [main EXCEPT !.pc = "batch", !.i = @ + 1]
                      ELSE Fail(main, r.error)
    /\ UNCHANGED <<moreVars, otherVars, clientVars, env, cfg, csv>>

NextMain ==
    \/ ParseArgs \/ GetPat \/ GetTimeout \/ GetBatchSize \/ SendRequest
    \/ GetConfigId \/ GetConfig \/ ReadCsv \/ CountBatches
    \/ NextBatch \/ GetRepoId \/ ReposDone \/ Attach

SpecMain == InitMain /\ [][NextMain]_vars

-----------------------------------------------------------------------------
(* The topics script, from its first line to its exit. *)

MainIdle == [NoMain EXCEPT !.pc = "idle"]

TopicsRuns ==
    {[NoTopics EXCEPT !.pc = "read_csv", !.nrows = n] : n \in 0..MaxRows}
      \cup {[NoTopics EXCEPT !.pc = "read_csv", !.csv = p] : p \in TopicCsvProblems}

InitTopics ==
    /\ now = 0 /\ timeout_seconds = 0
    /\ get = GetIdle /\ post = PostIdle /\ served = << >>
    /\ env = NoEnv /\ cfg = NoLookup
    /\ csv = NoCsv /\ main = MainIdle /\ http = << >>
    /\ args = NoArgs /\ call = NoCall /\ ado = NoAdo /\ Unused
    /\ topics \in TopicsRuns

\* lines 225-238 and 212: the token is encoded whatever GITHUB_PAT is, and the
\* file is read
ReadTopicsCsv ==
    /\ topics.pc = "read_csv"
    /\ LET r == read_csv_file(topics.csv) IN
         topics' = IF r.ok THEN [topics EXCEPT !.pc = "row"]
                   ELSE TopicsFail(topics, r.error)
    /\ UNCHANGED <<moreVars, clientVars, env, cfg, scriptVars, args, call, ado>>

\* lines 214-218 and 186-188: the next row, whatever its Topics cell holds;
\* or the end of the loop and line 240
TopicsRow ==
    /\ topics.pc = "row"
    /\ IF topics.index < topics.nrows
       THEN \E cell \in Cells :
              topics' =
                IF cell.kind = "num" THEN TopicsFail(topics, "AttributeError")
                ELSE LET t == [topics EXCEPT !.new_topics = split_topics(cell),
                                             !.current_topics = << >>,
                                             !.updated_topics = << >>]
                     IN  IF t.new_topics = << >> THEN TopicsNextRow(t)
                         ELSE [t EXCEPT !.pc = "fetch"]
       ELSE topics' = [topics EXCEPT !.pc = "exited", !.exit_status = 0,
                                     !.completed = TRUE]
    /\ UNCHANGED <<moreVars, clientVars, env, cfg, scriptVars, args, call, ado>>

\* lines 191-201 and 137-155
FetchTopics ==
    /\ topics.pc = "fetch"
    /\ \E out \in TopicOutcomes, current \in CurrentTopics :
         LET t == [topics EXCEPT
                      !.log = Append(@, TopicsCall("GET", topics.index, out))]
         IN  IF out.raised THEN topics' = TopicsFail(t, out.error)
             ELSE IF out.status_code # 200
             THEN topics' = TopicsFail(t, "TopicFetchError")
             ELSE IF all_topics_exist(current, t.new_topics)
             THEN topics' = TopicsNextRow([t EXCEPT !.current_topics = current])
             ELSE \E updated \in merged_topics(current, t.new_topics) :
                    topics' = [t EXCEPT !.pc = "update",
                                        !.current_topics = current,
                                        !.updated_topics = updated]
    /\ UNCHANGED <<moreVars, clientVars, env, cfg, scriptVars, args, call, ado>>

\* lines 204 and 157-174: the PUT of {"names": updated_topics}
UpdateTopics ==
    /\ topics.pc = "update"
    /\ \E out \in TopicOutcomes :
         LET t == [topics EXCEPT
                      !.log = Append(@, TopicsCall("PUT", topics.index, out))]
         IN  topics' = IF out.raised THEN TopicsFail(t, out.error)
                       ELSE IF out.status_code # 200
                       THEN TopicsFail(t, "TopicUpdateError")
                       ELSE TopicsNextRow(t)
    /\ UNCHANGED <<moreVars, clientVars, env, cfg, scriptVars, args, call, ado>>

NextTopics == ReadTopicsCsv \/ TopicsRow \/ FetchTopics \/ UpdateTopics

SpecTopics == InitTopics /\ [][NextTopics]_vars

-----------------------------------------------------------------------------
(* ado_repo_information.py, from its first line to its exit. *)

InitAdo ==
    /\ now = 0 /\ timeout_seconds = 0
    /\ get = GetIdle /\ post = PostIdle /\ served = << >>
    /\ env = NoEnv /\ cfg = NoLookup
    /\ csv = NoCsv /\ main = MainIdle /\ http = << >>
    /\ args = NoArgs /\ call = NoCall /\ topics = NoTopics /\ Unused
    /\ ado \in {[NoAdo EXCEPT !.pc = "start", !.pat_set = b] : b \in BOOLEAN}

\* lines 19-25: ':' + pat raises TypeError when AZURE_DEVOPS_PAT is not set
AdoStart ==
    /\ ado.pc = "start"
    /\ ado' = IF ado.pat_set THEN [ado EXCEPT !.pc = "projects"]
              ELSE AdoCrash(ado, "TypeError")
    /\ UNCHANGED <<moreVars, clientVars, env, cfg, scriptVars, args, call, topics>>

\* lines 64-70: exit() without an argument ends the script with status 0
AdoFetchProjects ==
    /\ ado.pc = "projects"
    /\ \E out \in AdoOutcomes, n \in 0..MaxProjects :
         ado' = IF out.raised THEN AdoCrash(ado, out.error)
                ELSE IF out.status_code = 200
                THEN [ado EXCEPT !.pc = "project", !.nprojects = n]
                ELSE [AdoFailure(ado) EXCEPT !.pc = "exited", !.exit_status = 0]
    /\ UNCHANGED <<moreVars, clientVars, env, cfg, scriptVars, args, call, topics>>

\* lines 72-81: the repositories of the next project; `continue` when the
\* request fails
AdoFetchRepos ==
    /\ ado.pc = "project"
    /\ ado.p < ado.nprojects
    /\ \E out \in AdoOutcomes, n \in 0..MaxAdoRepos :
         ado' = IF out.raised THEN AdoCrash(ado, out.error)
                ELSE IF out.status_code = 200
                THEN IF n > 0
                     THEN [ado EXCEPT !.pc = "commits", !.nrepos = n, !.q = 0]
                     ELSE [ado EXCEPT !.p = @ + 1, !.nrepos = 0]
                ELSE [AdoFailure(ado) EXCEPT !.p = @ + 1]
    /\ UNCHANGED <<moreVars, clientVars, env, cfg, scriptVars, args, call, topics>>

\* lines 85-91: a failing request leaves 'Failed to fetch commits' as the date
AdoFetchCommits ==
    /\ ado.pc = "commits"
    /\ \E out \in AdoOutcomes :
         ado' = IF out.raised THEN AdoCrash(ado, out.error)
                ELSE IF out.status_code = 200 THEN [ado EXCEPT !.pc = "detail"]
                ELSE [AdoFailure(ado) EXCEPT !.pc = "detail"]
    /\ UNCHANGED <<moreVars, clientVars, env, cfg, scriptVars, args, call, topics>>

\* lines 94-112: the row is appended, or the failure printed
AdoFetchDetail ==
    /\ ado.pc = "detail"
    /\ \E out \in AdoOutcomes :
         ado' = IF out.raised THEN AdoCrash(ado, out.error)
                ELSE IF out.status_code = 200
                THEN AdoNextRepo([ado EXCEPT !.rows = @ + 1])
                ELSE AdoNextRepo(AdoFailure(ado))
    /\ UNCHANGED <<moreVars, clientVars, env, cfg, scriptVars, args, call, topics>>

\* lines 114-125: the loop is over, the Excel file is written, and the script
\* ends with status 0
AdoExport ==
    /\ ado.pc = "project"
    /\ ado.p >= ado.nprojects
    /\ ado' = [ado EXCEPT !.pc = "exited", !.exit_status = 0, !.completed = TRUE]
    /\ UNCHANGED <<moreVars, clientVars, env, cfg, scriptVars, args, call, topics>>

NextAdo ==
    \/ AdoStart \/ AdoFetchProjects \/ AdoFetchRepos \/ AdoFetchCommits
    \/ AdoFetchDetail \/ AdoExport

SpecAdo == InitAdo /\ [][NextAdo]_vars

-----------------------------------------------------------------------------
(* One call of safe_get_request or safe_put_request of the topics script. *)

InitHelper ==
    /\ now = EpochStart * TicksPerSecond
    /\ timeout_seconds \in Timeouts
    /\ get = GetIdle /\ post = PostIdle /\ served = << >>
    /\ env = NoEnv /\ cfg = NoLookup
    /\ csv = NoCsv /\ main = MainIdle /\ http = << >>
    /\ args = NoArgs /\ call = NoCall /\ topics = NoTopics /\ ado = NoAdo
    /\ Unused

HelperCall ==
    /\ call.pc = "idle"
    /\ \E method \in {"GET", "PUT"} : call' = HelperCalled(call, method, now)
    /\ UNCHANGED <<moreVars, clientVars, env, cfg, scriptVars, args, topics, ado>>

\* The server answers the request in flight after `lat` ticks.
HelperRespond ==
    /\ call.pc = "request"
    /\ \E lat \in 0..MaxLatency :
         \E resp \in Responses(now + lat) :
           /\ now' = now + lat
           /\ call' = HelperReceive(call, resp, now')
    /\ UNCHANGED <<moreVars, timeout_seconds, get, post, served, env, cfg, scriptVars,
                   args, topics, ado>>

\* requests.get / requests.put raises (no connection).
HelperRequestFails ==
    /\ call.pc = "request"
    /\ call' = Raise(call, "RequestException")
    /\ UNCHANGED <<moreVars, clientVars, env, cfg, scriptVars, args, topics, ado>>

HelperHandles ==
    /\ call.pc = "check"
    /\ call' = HelperHandle(call, now)
    /\ UNCHANGED <<moreVars, clientVars, env, cfg, scriptVars, args, topics, ado>>

HelperWakes ==
    /\ call.pc = "sleep"
    /\ now' = now + call.sleeping * TicksPerSecond
    /\ call' = HelperWake(call)
    /\ UNCHANGED <<moreVars, timeout_seconds, get, post, served, env, cfg, scriptVars,
                   args, topics, ado>>

NextHelper ==
    \/ HelperCall \/ HelperRespond \/ HelperRequestFails \/ HelperHandles
    \/ HelperWakes

SpecHelper == InitHelper /\ [][NextHelper]_vars

-----------------------------------------------------------------------------
(* get_code_security_config_id applied to every outcome and list. *)

InitLookup ==
    /\ now = 0 /\ timeout_seconds = 0
    /\ get = GetIdle /\ post = PostIdle /\ served = << >>
    /\ env = NoEnv /\ cfg = NoLookup
    /\ csv = NoCsv /\ main = MainIdle /\ http = << >>
    /\ call = NoCall /\ topics = NoTopics /\ ado = NoAdo /\ Unused
    /\ args \in [out : ConfigOutcomes \cup {Throws("HTTPError")},
                 configs : AllConfigLists]

LookUpConfigId ==
    /\ cfg = NoLookup
    /\ cfg' = get_code_security_config_id(args.out, args.configs, Owner, ConfigName)
    /\ UNCHANGED <<moreVars, clientVars, env, scriptVars, otherVars>>

NextLookup == LookUpConfigId

SpecLookup == InitLookup /\ [][NextLookup]_vars

-----------------------------------------------------------------------------
(* The two calls of Part 1 when every request is answered and takes time:   *)
(* requests never raise, a response takes one tick or more, and no step     *)
(* that can be taken is put off for ever.                                   *)

\* More requests than a call can issue within the timeouts tried here.
LiveRequests == 8

LiveTimeouts == {0, 3}

InitLive ==
    /\ Init
    /\ timeout_seconds \in LiveTimeouts

RespondInTime ==
    \E lat \in 1..MaxLatency :
      \E resp \in Responses(now + lat) :
        /\ get.pc = "request" \/ post.pc = "request"
        /\ Len(served) < LiveRequests
        /\ now' = now + lat
        /\ served' = Append(served, resp)
        /\ get' = IF get.pc = "request" THEN GetReceive(get, resp, now') ELSE get
        /\ post' = IF post.pc = "request" THEN PostReceive(post, resp, now') ELSE post
        /\ UNCHANGED <<moreVars, otherVars, timeout_seconds, env, cfg, scriptVars>>

NextLive == Call \/ RespondInTime \/ Handle \/ Wake

SpecLive == InitLive /\ [][NextLive]_vars /\ WF_vars(NextLive)

-----------------------------------------------------------------------------
(* add_topics_to_repo, twice. *)

InitRerun ==
    /\ now = 0 /\ timeout_seconds = 0
    /\ get = GetIdle /\ post = PostIdle /\ served = << >>
    /\ env = NoEnv /\ cfg = NoLookup
    /\ csv = NoCsv /\ main = MainIdle /\ http = << >>
    /\ args = NoArgs /\ call = NoCall /\ topics = NoTopics /\ ado = NoAdo
    /\ info = NoInfo /\ row = NoRow /\ pipe = NoPipe
    /\ \E cell \in Cells \ {Number}, held \in CurrentTopics :
         twice = [NoTwice EXCEPT !.pc = "start", !.run = 1,
                                 !.new_topics = split_topics(cell),
                                 !.stored = held, !.at_start = held]

\* lines 186-188
RerunStart ==
    /\ twice.pc = "start"
    /\ twice' = IF twice.new_topics = << >> THEN TwiceReturn(twice)
                ELSE [twice EXCEPT !.pc = "fetch"]
    /\ UNCHANGED <<clientVars, env, cfg, scriptVars, otherVars, info, row, pipe>>

\* lines 191-199 and 137-155
RerunFetch ==
    /\ twice.pc = "fetch"
    /\ LET current == twice.stored
           t == [twice EXCEPT
                    !.current_topics = current,
                    !.log = Append(@, TopicsRequest("GET", twice.run, current))]
       IN  IF all_topics_exist(current, t.new_topics)
           THEN twice' = TwiceReturn(t)
           ELSE \E updated \in merged_topics(current, t.new_topics) :
                  twice' = [t EXCEPT !.pc = "update", !.updated_topics = updated]
    /\ UNCHANGED <<clientVars, env, cfg, scriptVars, otherVars, info, row, pipe>>

\* lines 201-204 and 157-174: the server stores the names of the payload
RerunUpdate ==
    /\ twice.pc = "update"
    /\ twice' = TwiceReturn(
                   [twice EXCEPT
                      !.stored = twice.updated_topics,
                      !.log = Append(@, TopicsRequest("PUT", twice.run,
                                                      twice.updated_topics))])
    /\ UNCHANGED <<clientVars, env, cfg, scriptVars, otherVars, info, row, pipe>>

NextRerun == RerunStart \/ RerunFetch \/ RerunUpdate

SpecRerun == InitRerun /\ [][NextRerun]_vars

-----------------------------------------------------------------------------
(* github/github_repo_information.py from line 137 to its exit. *)

InitInfo ==
    /\ now = 0 /\ timeout_seconds = 0
    /\ get = GetIdle /\ post = PostIdle /\ served = << >>
    /\ env = NoEnv /\ cfg = NoLookup
    /\ csv = NoCsv /\ main = MainIdle /\ http = << >>
    /\ args = NoArgs /\ call = NoCall /\ topics = NoTopics /\ ado = NoAdo
    /\ twice = NoTwice /\ row = NoRow /\ pipe = NoPipe
    /\ info = [NoInfo EXCEPT !.pc = "page"]

\* lines 143-150 and 156-159: the next page is requested; the server has at
\* most MaxPages pages with repositories
InfoFetchPage ==
    /\ info.pc = "page"
    /\ \E out \in InfoOutcomes, n \in 0..PerPage :
         /\ out.raised \/ out.status_code # 200 => n = 0
         /\ Len(info.requested) >= MaxPages => n = 0
         /\ LET i == [info EXCEPT
                        !.requested = Append(@, PageRequest(info.page, out, n))]
            IN  info' =
                  IF out.raised THEN InfoCrash(i, out.error)
                  ELSE IF out.status_code = 200
                  THEN IF n = 0 THEN [i EXCEPT !.pc = "export"]
                       ELSE [i EXCEPT !.pc = "repo", !.size = n, !.k = 0,
                                      !.num_repos = @ + n]
                  ELSE [i EXCEPT !.pc = "export"]
    /\ UNCHANGED <<clientVars, env, cfg, scriptVars, otherVars, twice, row, pipe>>

\* lines 151-156 and 93-129: one turn of the loop over the repos of the page,
\* get_repository_data with its two requests; after the last, page += 1
InfoRepo ==
    /\ info.pc = "repo"
    /\ info.k < info.size
    /\ \E commits \in InfoOutcomes, detail \in InfoOutcomes :
         LET i == [info EXCEPT
                      !.processed = Append(@, <<info.page, info.k + 1>>),
                      !.k = @ + 1]
             appended == IF detail.status_code = 200
                         THEN [i EXCEPT !.rows = @ + 1] ELSE i
         IN  info' =
               IF commits.raised THEN InfoCrash(i, commits.error)
               ELSE IF detail.raised THEN InfoCrash(i, detail.error)
               ELSE IF appended.k < appended.size THEN appended
               ELSE [appended EXCEPT !.pc = "page", !.page = next_page(@)]
    /\ UNCHANGED <<clientVars, env, cfg, scriptVars, otherVars, twice, row, pipe>>

\* lines 161-181: the DataFrame is built and written
InfoExport ==
    /\ info.pc = "export"
    /\ info' = [info EXCEPT !.pc = "exited", !.exit_status = 0,
                            !.exported = TRUE, !.exported_rows = info.rows]
    /\ UNCHANGED <<clientVars, env, cfg, scriptVars, otherVars, twice, row, pipe>>

NextInfo == InfoFetchPage \/ InfoRepo \/ InfoExport

SpecInfo == InitInfo /\ [][NextInfo]_vars

-----------------------------------------------------------------------------
(* The rows and the DataFrame of a repo-information script. *)

InitRows ==
    /\ now = 0 /\ timeout_seconds = 0
    /\ get = GetIdle /\ post = PostIdle /\ served = << >>
    /\ env = NoEnv /\ cfg = NoLookup
    /\ csv = NoCsv /\ main = MainIdle /\ http = << >>
    /\ args = NoArgs /\ call = NoCall /\ topics = NoTopics /\ ado = NoAdo
    /\ twice = NoTwice /\ info = NoInfo /\ pipe = NoPipe
    /\ \E script \in InfoScripts, team \in BOOLEAN, language \in BOOLEAN :
         /\ script = "repo_information.py" => ~team /\ ~language
         /\ row = [NoRow EXCEPT !.pc = "rows", !.script = script,
                                !.team = team, !.language = language]

\* One repository whose detail request returned 200: its row is appended.
AppendRow ==
    /\ row.pc = "rows"
    /\ Len(row.repositories_data) < MaxDataRows
    /\ \E in_dict \in BOOLEAN :
         /\ in_dict => KeepsTeamDict(row.script) /\ row.team
         /\ row' = [row EXCEPT !.repositories_data =
                       Append(@, repo_data(row.script, row.team, row.language,
                                           in_dict))]
    /\ UNCHANGED <<clientVars, env, cfg, scriptVars, otherVars, twice, info, pipe>>

\* The loop is over: the columns are defined and the DataFrame is built.
BuildDataFrame ==
    /\ row.pc = "rows"
    /\ LET cols == columns(row.script, row.team, row.language)
           r == [row EXCEPT !.pc = "exited", !.columns = cols]
       IN  row' = IF DataFrameRaises(row.repositories_data, cols)
                  THEN [r EXCEPT !.exit_status = 1, !.error = "ValueError"]
                  ELSE [r EXCEPT !.exit_status = 0]
    /\ UNCHANGED <<clientVars, env, cfg, scriptVars, otherVars, twice, info, pipe>>

NextRows == AppendRow \/ BuildDataFrame

SpecRows == InitRows /\ [][NextRows]_vars

-----------------------------------------------------------------------------
(* process_organization of ado_pipeline_source_update.py. *)

InitPipe ==
    /\ now = 0 /\ timeout_seconds = 0
    /\ get = GetIdle /\ post = PostIdle /\ served = << >>
    /\ env = NoEnv /\ cfg = NoLookup
    /\ csv = NoCsv /\ main = MainIdle /\ http = << >>
    /\ args = NoArgs /\ call = NoCall /\ topics = NoTopics /\ ado = NoAdo
    /\ twice = NoTwice /\ info = NoInfo /\ row = NoRow
    /\ pipe = [NoPipe EXCEPT !.pc = "get_projects"]

\* Lines 105-110: get_projects and get_repositories; a failed listing is []
\* and its loop runs no time.
PipeGetRepositories ==
    /\ pipe.pc = "get_projects"
    /\ \E n \in 0..MaxPipeRepos :
         pipe' = NextRepo([pipe EXCEPT !.repos = n])
    /\ UNCHANGED <<clientVars, env, cfg, scriptVars, otherVars, twice, info, row>>

\* Lines 111-113 and 122-123: get_yaml_files; `if yaml_files:` is false for
\* a listing without .yml items and for a failed listing (both are []).
PipeGetYamlFiles ==
    /\ pipe.pc = "get_yaml_files"
    /\ \E ok \in BOOLEAN, n \in 0..MaxYaml :
         /\ ~ok => n = 0
         /\ LET p == [pipe EXCEPT !.yaml_files = n,
                        !.calls = Append(@, PipeCall(pipe.repo, "get_yaml_files",
                                                     ok, n))]
            IN  pipe' = IF n > 0 THEN [p EXCEPT !.pc = "clone_repo"]
                        ELSE NextRepo(p)
    /\ UNCHANGED <<clientVars, env, cfg, scriptVars, otherVars, twice, info, row>>

\* Lines 114-115: clone_repo; None skips the rest of the body.
PipeCloneRepo ==
    /\ pipe.pc = "clone_repo"
    /\ \E ok \in BOOLEAN :
         LET p == [pipe EXCEPT !.calls =
                     Append(@, PipeCall(pipe.repo, "clone_repo", ok, 0))]
         IN  pipe' = IF ok THEN [p EXCEPT !.pc = "update_yaml_content"]
                     ELSE NextRepo(p)
    /\ UNCHANGED <<clientVars, env, cfg, scriptVars, otherVars, twice, info, row>>

\* Lines 117-118: update_yaml_content for the next yaml_file; it returns
\* None whether or not it failed.
PipeUpdateYamlContent ==
    /\ pipe.pc = "update_yaml_content"
    /\ pipe.k < pipe.yaml_files
    /\ \E ok \in BOOLEAN :
         pipe' = [pipe EXCEPT !.k = @ + 1, !.calls =
                    Append(@, PipeCall(pipe.repo, "update_yaml_content", ok, 0))]
    /\ UNCHANGED <<clientVars, env, cfg, scriptVars, otherVars, twice, info, row>>

\* Line 119: push_changes after the loop; it returns None whether or not it
\* failed.
PipePushChanges ==
    /\ pipe.pc = "update_yaml_content"
    /\ pipe.k = pipe.yaml_files
    /\ \E ok \in BOOLEAN :
         pipe' = [pipe EXCEPT !.pc = "create_pull_request", !.calls =
                    Append(@, PipeCall(pipe.repo, "push_changes", ok, 0))]
    /\ UNCHANGED <<clientVars, env, cfg, scriptVars, otherVars, twice, info, row>>

\* Lines 120-121: create_pull_request is the statement after push_changes,
\* under no condition; then the "Updated" line and the next repo.
PipeCreatePullRequest ==
    /\ pipe.pc = "create_pull_request"
    /\ \E ok \in BOOLEAN :
         pipe' = NextRepo([pipe EXCEPT !.calls =
                    Append(@, PipeCall(pipe.repo, "create_pull_request", ok, 0))])
    /\ UNCHANGED <<clientVars, env, cfg, scriptVars, otherVars, twice, info, row>>

NextPipe ==
    \/ PipeGetRepositories
    \/ PipeGetYamlFiles
    \/ PipeCloneRepo
    \/ PipeUpdateYamlContent
    \/ PipePushChanges
    \/ PipeCreatePullRequest

SpecPipe == InitPipe /\ [][NextPipe]_vars

-----------------------------------------------------------------------------
(* The three scripts: one of them runs. *)

InitScripts == InitMain \/ InitTopics \/ InitAdo

NextScripts == NextMain \/ NextTopics \/ NextAdo

SpecScripts == InitScripts /\ [][NextScripts]_vars

-----------------------------------------------------------------------------
(* Properties of the two calls (specification Spec).  They are written     *)
(* from the claims, with their own arithmetic, against the frames.         *)

Methods == {"GET", "POST"}

Frame(m) == IF m = "GET" THEN get ELSE post

Elapsed(f) == f.current_time - f.start_time

\* A response the server marks as rate limited: 403 and X-RateLimit-Remaining "0".
RateLimitedResponse(r) == r.status_code = 403 /\ r.remaining = "0"

\* X-RateLimit-Reset can be read: it is absent or an integer.
ResetReadable(r) == r.reset.kind \in {"absent", "int"}

ResetOf(r) == IF r.reset.kind = "int" THEN r.reset.val ELSE 0

\* max(reset - now + 10, 0), now being the whole seconds of the clock at the
\* response.
ExpectedWait(f) ==
    LET w == ResetOf(f.response) - (f.current_time \div TicksPerSecond) + 10
    IN  IF w > 0 THEN w ELSE 0

LastWait(f) == f.waits[Len(f.waits)]

\* The call has dealt with its last response and has not received another.
Handled(f) == f.nreq > 0 /\ f.pc \in {"sleep", "request", "returned", "raised"}

RequestRaised(f) == f.pc = "raised" /\ f.error = "RequestException"

\* C1: a rate-limited response (403, X-RateLimit-Remaining "0") that arrives
\* within the timeout makes the call wait max(reset - now + 10, 0) seconds,
\* reset being X-RateLimit-Reset or 0 when absent (no sleep at all when that is
\* 0), after which it issues the request again; a response that is returned is
\* never a rate-limited one and is the one served to the last request; with
\* reset >= now + 5 the sleep is at least 15 seconds.
C1_RateLimitWait ==
    \A m \in Methods : LET f == Frame(m) IN
      /\ ( /\ Handled(f)
           /\ RateLimitedResponse(f.response)
           /\ Elapsed(f) <= timeout_seconds
           /\ ResetReadable(f.response) )
         => /\ f.pc \in {"sleep", "request"} \/ RequestRaised(f)
            /\ f.waits # << >>
            /\ LastWait(f).kind = "rate"
            /\ LastWait(f).secs = ExpectedWait(f)
            /\ f.retries + (IF f.pc = "sleep" THEN 1 ELSE 0) = f.nreq
            /\ f.pc = "sleep" => /\ f.sleeping = ExpectedWait(f)
                                 /\ f.sleeping > 0
                                 /\ now = f.current_time
            /\ f.pc = "request" =>
                   now = f.current_time + ExpectedWait(f) * TicksPerSecond
            /\ ResetOf(f.response) * TicksPerSecond
                   >= f.current_time + 5 * TicksPerSecond
               => LastWait(f).secs >= 15
      /\ f.pc = "returned" => /\ ~RateLimitedResponse(f.response)
                              /\ f.response = served[f.nreq]
                              /\ f.nreq = f.retries + 1

\* C1 witness: both calls slept 15 seconds after a rate-limited response whose
\* reset lay 5 seconds ahead, retried, and returned the 200 of the retry.
C1_Witness ==
    \A m \in Methods : LET f == Frame(m) IN
      /\ f.pc = "returned"
      /\ f.nreq = 2
      /\ f.waits = <<[kind |-> "rate", secs |-> 15]>>
      /\ RateLimitedResponse(served[1])
      /\ f.response.status_code = 200

\* The responses a call retries: rate-limited ones, and 409 for POST only.
Retryable(m, r) ==
    \/ RateLimitedResponse(r)
    \/ m = "POST" /\ r.status_code = 409

TimeoutErrors == {"TimeoutError: rate limit", "TimeoutError: conflict"}

TimeoutRaised(f) == f.pc = "raised" /\ f.error \in TimeoutErrors

\* C2: a call raises a timeout error exactly when the response it has just
\* received is retryable (rate limited, or 409 for POST) and the time elapsed
\* since the call started is strictly greater than timeout_seconds; it then
\* neither sleeps nor issues another request.  While the elapsed time is at
\* most timeout_seconds a retryable response never raises a timeout error: the
\* call waits and retries.
C2_TimeoutIff ==
    \A m \in Methods : LET f == Frame(m) IN
      /\ TimeoutRaised(f) =>
            /\ Retryable(m, f.response)
            /\ Elapsed(f) > timeout_seconds
            /\ f.response = served[f.nreq]
            /\ f.nreq = f.retries + 1
            /\ Len(f.waits) = f.retries
            /\ f.sleeping = 0
      /\ (Handled(f) /\ Retryable(m, f.response) /\ Elapsed(f) > timeout_seconds)
            => TimeoutRaised(f)
      /\ ( /\ Handled(f) /\ Retryable(m, f.response) /\ Elapsed(f) <= timeout_seconds
           /\ RateLimitedResponse(f.response) => ResetReadable(f.response) )
            => /\ ~TimeoutRaised(f)
               /\ f.pc \in {"sleep", "request"} \/ RequestRaised(f)
               /\ Len(f.waits) = f.nreq

\* C2 witness: after one wait both calls received a retryable response exactly
\* at the deadline earlier on (and retried), and now one past it (and raised).
C2_Witness ==
    \A m \in Methods : LET f == Frame(m) IN
      /\ TimeoutRaised(f)
      /\ f.nreq >= 2
      /\ Elapsed(f) = timeout_seconds + 1
      /\ timeout_seconds > 0

\* C3 as claimed: while a call is sleeping or about to issue a request, the
\* time elapsed since it started never exceeds timeout_seconds.
C3_ElapsedNeverExceedsTimeout ==
    \A m \in Methods : LET f == Frame(m) IN
      f.pc \in {"sleep", "request"} => now - f.start_time <= timeout_seconds

\* C3 as amended: the elapsed time is tested only when a retryable response
\* arrives.  A call that is sleeping or about to retry had not exceeded
\* timeout_seconds at that test, so when the sleep starts the elapsed time is
\* within the timeout, and when the retry is issued it exceeds the timeout by
\* no more than the one wait just finished.
C3_ElapsedCheckedBeforeWait ==
    \A m \in Methods : LET f == Frame(m) IN
      /\ (f.pc \in {"sleep", "request"} /\ f.nreq > 0) =>
            /\ Elapsed(f) <= timeout_seconds
            /\ f.waits # << >>
      /\ f.pc = "sleep" => now - f.start_time <= timeout_seconds
      /\ (f.pc = "request" /\ f.nreq > 0) =>
            now - f.start_time
               <= timeout_seconds + LastWait(f).secs * TicksPerSecond

\* C3 witness: a call is about to retry although more than timeout_seconds
\* have elapsed, the time having passed during its last sleep.
C3_Witness ==
    \E m \in Methods : LET f == Frame(m) IN
      /\ f.pc = "request"
      /\ f.nreq > 0
      /\ LastWait(f).secs > 0
      /\ now - f.start_time > timeout_seconds
      /\ Elapsed(f) <= timeout_seconds

RECURSIVE Pow2(_)
Pow2(n) == IF n = 0 THEN 1 ELSE 2 * Pow2(n - 1)

ConflictWaits(f) == SelectSeq(f.waits, LAMBDA w : w.kind = "conflict")

\* The conflict sleeps the call has finished.
ConflictsSlept(f) ==
    Len(ConflictWaits(f))
      - (IF f.pc = "sleep" /\ LastWait(f).kind = "conflict" THEN 1 ELSE 0)

\* C4: in safe_post_request the k-th 409 retry of a call sleeps 2^(k-1)
\* seconds (1, 2, 4, 8, ...), whatever rate-limit waits lie in between; the
\* back-off is doubled after each conflict sleep and at no other time, never
\* capped, and the sleep lasts the back-off's seconds.
C4_BackoffDoubles ==
    /\ \A k \in 1..Len(ConflictWaits(post)) :
           ConflictWaits(post)[k].secs = Pow2(k - 1)
    /\ post.pc # "idle" => post.backoff_time = Pow2(ConflictsSlept(post))
    /\ (post.pc = "sleep" /\ LastWait(post).kind = "conflict") =>
           post.sleeping = Pow2(Len(ConflictWaits(post)) - 1)
    /\ ( /\ post.pc = "request" /\ post.nreq > 0
         /\ LastWait(post).kind = "conflict" ) =>
           now = post.current_time + LastWait(post).secs * TicksPerSecond

\* C4 witness: the third 409 of a call, with a rate-limit wait in between,
\* has put safe_post_request to sleep for 4 seconds.
C4_Witness ==
    /\ post.pc = "sleep"
    /\ post.sleeping = 4
    /\ Len(ConflictWaits(post)) = 3
    /\ Len(post.waits) > 3

No409 == \A i \in 1..Len(served) : served[i].status_code # 409

\* What a caller and the server can see of a call.
Observable(f) ==
    [pc |-> f.pc, start_time |-> f.start_time, current_time |-> f.current_time,
     response |-> f.response, sleeping |-> f.sleeping, waits |-> f.waits,
     nreq |-> f.nreq, retries |-> f.retries, error |-> f.error]

\* C5: as long as the server has served no 409, safe_get_request and
\* safe_post_request have issued the same requests, waited the same waits and
\* ended the same way (returned response or error).  A 409 is returned by
\* safe_get_request at once, and retried after a conflict wait only by
\* safe_post_request.
C5_GetPostAgree ==
    /\ No409 => Observable(get) = Observable(post)
    /\ (Handled(get) /\ get.response.status_code = 409) =>
          /\ get.pc = "returned"
          /\ get.response = served[get.nreq]
    /\ ConflictWaits(get) = << >>
    /\ ( /\ Handled(post) /\ post.response.status_code = 409
         /\ Elapsed(post) <= timeout_seconds ) =>
          /\ post.pc \in {"sleep", "request"} \/ RequestRaised(post)
          /\ LastWait(post).kind = "conflict"

\* C5 witness: with no 409 served, both calls were rate limited past the
\* deadline, waited, retried and raised the same timeout error.
C5_Witness ==
    /\ No409
    /\ TimeoutRaised(get)
    /\ TimeoutRaised(post)
    /\ get.error = post.error
    /\ Len(get.waits) >= 2
    /\ get.waits = post.waits

\* C6: a response that is not retryable (anything but a rate-limited 403 and,
\* for POST, a 409) ends the call at once: the call returns that very
\* response, having issued one request more than it retried, with no wait for
\* it and no time spent after it; when it is the first response the call has
\* not waited at all.
C6_NonRetryableReturned ==
    \A m \in Methods : LET f == Frame(m) IN
      (Handled(f) /\ ~Retryable(m, f.response)) =>
          /\ f.pc = "returned"
          /\ f.error = "none"
          /\ f.response = served[f.nreq]
          /\ f.nreq = f.retries + 1
          /\ Len(f.waits) = f.retries
          /\ f.sleeping = 0
          /\ f.nreq = 1 => f.waits = << >>
          /\ post.retries = f.retries => now = f.current_time

\* C6 witness: a 403 that carries no X-RateLimit-Remaining header, served to
\* the first request, has been returned by both calls without any wait.
C6_Witness ==
    \A m \in Methods : LET f == Frame(m) IN
      /\ f.pc = "returned"
      /\ f.response = Response(403, "absent", AbsentHeader)
      /\ f.nreq = 1
      /\ f.waits = << >>

-----------------------------------------------------------------------------
(* Properties of the configuration lookups (specification SpecConfig).     *)

\* A string of decimal digits, one at least.
PlainNumber(str) ==
    /\ str # << >>
    /\ \A k \in 1..Len(str) : str[k] \in {"0", "3"}

\* C8: get_environment_variable_or_raise(name) raises EnvVarMissingError if
\* and only if the variable is unset or the empty string, and otherwise
\* returns its value unchanged (blanks included).
C8_MissingIff ==
    cfg.fn \in Names =>
      LET v == env[cfg.fn] IN
        /\ ~cfg.ok <=> (~v.set \/ v.val = << >>)
        /\ ~cfg.ok => cfg.error = "EnvVarMissingError"
        /\ cfg.ok => cfg.value.str = v.val /\ v.set

\* C8 witness: GITHUB_PAT is set to the empty string and the lookup raised.
C8_Witness ==
    /\ cfg.fn = "GITHUB_PAT"
    /\ env["GITHUB_PAT"] = SetTo(<< >>)
    /\ ~cfg.ok
    /\ cfg.error = "EnvVarMissingError"

NumericLookups == {"get_repo_batch_size", "get_api_timeout_seconds"}

\* C9 as claimed: get_repo_batch_size and get_api_timeout_seconds return a
\* value for every state of their variable.
C9_NumericNeverFails == cfg.fn \in NumericLookups => cfg.ok

\* C9 as amended: the two lookups return the defaults 1 and 60 when their
\* variable is absent and the number when it is a string of digits (a sign
\* and blanks around it allowed); they raise ValueError, and nothing else,
\* only for a variable that is set to a string that is no number, the empty
\* string among them.
C9_NumericFailsOnlyOnBadValue ==
    /\ cfg.fn = "get_repo_batch_size" =>
         LET v == env["BATCH_SIZE"] IN
           /\ ~v.set => cfg.ok /\ cfg.value.int = 1
           /\ (v.set /\ PlainNumber(v.val)) => cfg.ok
           /\ v = SetTo(<<"3", "0">>) => cfg.value.int = 30
           /\ v = SetTo(<<" ", "-", "3">>) => cfg.ok /\ cfg.value.int = -3
           /\ v = SetTo(<<"0">>) => cfg.value.int = 0
           /\ ~cfg.ok => /\ cfg.error = "ValueError"
                         /\ v.set
                         /\ ~PlainNumber(v.val)
           /\ (v.set /\ \E k \in 1..Len(v.val) : v.val[k] \in {"x", "."})
                 => ~cfg.ok
           /\ v = SetTo(<< >>) => ~cfg.ok
    /\ cfg.fn = "get_api_timeout_seconds" =>
         LET v == env["API_TIMEOUT_SECONDS"] IN
           /\ ~v.set => cfg.ok /\ cfg.value.num = 60 /\ cfg.value.den = 1
           /\ (v.set /\ PlainNumber(v.val)) => cfg.ok
           /\ v = SetTo(<<"3", ".", "3">>) =>
                 cfg.ok /\ cfg.value.num = 33 /\ cfg.value.den = 10
           /\ v = SetTo(<<"-", ".", "3">>) =>
                 cfg.ok /\ cfg.value.num = -3 /\ cfg.value.den = 10
           /\ ~cfg.ok => /\ cfg.error = "ValueError"
                         /\ v.set
                         /\ ~PlainNumber(v.val)
           /\ (v.set /\ \E k \in 1..Len(v.val) : v.val[k] = "x") => ~cfg.ok
           /\ v = SetTo(<< >>) => ~cfg.ok

\* C9 witness: BATCH_SIZE is set to the empty string and get_repo_batch_size
\* raised ValueError.
C9_Witness ==
    /\ cfg.fn = "get_repo_batch_size"
    /\ env["BATCH_SIZE"] = SetTo(<< >>)
    /\ ~cfg.ok
    /\ cfg.error = "ValueError"

-----------------------------------------------------------------------------
(* Properties of the script (specification SpecMain).                      *)

\* The batch loop has been entered.
InLoop ==
    \/ main.pc \in {"batch", "repo", "attach"}
    \/ main.completed
    \/ main.batches # << >>

RECURSIVE Flatten(_)
Flatten(lists) ==
    IF lists = << >> THEN << >> ELSE Head(lists) \o Flatten(Tail(lists))

\* C7: for N names and a batch size B >= 1 the loop forms ceil(N / B) batches
\* (none when N = 0), batch i being the names at the places i*B .. i*B+B-1
\* that exist; every batch but the last has B names, the last between 1 and
\* B, and the batches of a run that completes, put end to end, are the list.
C7_BatchesPartition ==
    LET N == Len(main.repo_names)
        B == main.batch_size
        formed == main.batches
    IN  (B >= 1 /\ InLoop) =>
          /\ main.num_batches >= 0
          /\ main.num_batches * B >= N
          /\ (main.num_batches - 1) * B < N
          /\ Len(formed) <= main.num_batches
          /\ \A k \in 1..Len(formed) :
               /\ Len(formed[k]) = IF k * B <= N THEN B ELSE N - (k - 1) * B
               /\ Len(formed[k]) >= 1
               /\ \A x \in 1..Len(formed[k]) :
                    formed[k][x] = main.repo_names[(k - 1) * B + x]
          /\ main.pc \in {"repo", "attach"} =>
               /\ Len(formed) = main.i + 1
               /\ main.batch_repo_names = formed[main.i + 1]
          /\ main.completed =>
               /\ Len(formed) = main.num_batches
               /\ Flatten(formed) = main.repo_names
               /\ N = 0 => formed = << >>

\* C7 witness: a run over 7 names with BATCH_SIZE=3 has completed with
\* batches of 3, 3 and 1 names.
C7_Witness ==
    /\ main.completed
    /\ env["BATCH_SIZE"] = Str("3")
    /\ Len(main.repo_names) = 7
    /\ Len(main.batches) = 3
    /\ <<Len(main.batches[1]), Len(main.batches[2]), Len(main.batches[3])>>
         = <<3, 3, 1>>

PatMissing == ~env["GITHUB_PAT"].set \/ env["GITHUB_PAT"].val = << >>

\* C10: when GITHUB_PAT is unset or empty the script, once past line 355, has
\* ended with EnvVarMissingError and exit status 1, has issued no HTTP call,
\* and has read GITHUB_PAT once and no other setting; no HTTP call is ever
\* issued without a token.
C10_MissingPatFatal ==
    /\ (main.argv_ok /\ PatMissing /\ main.pc \notin {"parse_args", "get_pat"}) =>
          /\ main.pc = "exited"
          /\ main.exit_status = 1
          /\ main.error = "EnvVarMissingError"
          /\ ~main.completed
          /\ main.lookups = <<"GITHUB_PAT">>
          /\ http = << >>
    /\ http # << >> => ~PatMissing
    /\ Len(SelectSeq(main.lookups, LAMBDA n : n = "GITHUB_PAT")) <= 1

\* C10 witness: GITHUB_PAT is set to the empty string and the run has ended
\* with status 1 before any HTTP call.
C10_Witness ==
    /\ env["GITHUB_PAT"] = SetTo(<< >>)
    /\ main.pc = "exited"
    /\ main.exit_status = 1
    /\ main.error = "EnvVarMissingError"
    /\ http = << >>

-----------------------------------------------------------------------------
(* Properties of the scripts (specification SpecScripts).                  *)

\* A call of the attach-config script that has ended in an exception or
\* with an error status.
CallFailed(e) == e.done /\ (e.raised \/ e.status_code >= 400)

\* A call of the topics script that has ended in an exception or with
\* another status than 200.
TopicsCallFailed(e) == e.raised \/ e.status_code # 200

\* The calls of the batch loop.
InBatch(e) == e.batch >= 0

AbortsOnFirstFailure ==
    /\ \A k \in 1..Len(http) : LET e == http[k] IN
         /\ e.batch <= main.i
         /\ e.method \in {"GET", "POST"}
         /\ (InBatch(e) /\ CallFailed(e)) =>
               /\ k = Len(http)
               /\ main.pc = "exited"
               /\ main.exit_status = 1
               /\ main.error # "none"
               /\ ~main.completed
               /\ main.i = e.batch
               /\ Len(main.batches) = e.batch + 1
         /\ (e.what = "attach" /\ e.batch < main.i) =>
               e.done /\ ~e.raised /\ e.status_code = 202
    /\ \A k \in 1..Len(topics.log) : LET e == topics.log[k] IN
         /\ e.index <= topics.index
         /\ e.method \in {"GET", "PUT"}
         /\ TopicsCallFailed(e) =>
               /\ k = Len(topics.log)
               /\ topics.pc = "exited"
               /\ topics.exit_status = 1
               /\ topics.error # "none"
               /\ ~topics.completed
               /\ topics.index = e.index
         /\ e.index < topics.index => ~TopicsCallFailed(e)

\* What a call has done stays done: a call that has returned is never taken
\* out of the log or changed, whatever happens later.
LogsOnlyGrow ==
    /\ Len(http') >= Len(http)
    /\ \A k \in 1..Len(http) : http[k].done => http'[k] = http[k]
    /\ Len(topics.log') >= Len(topics.log)
    /\ \A k \in 1..Len(topics.log) : topics.log'[k] = topics.log[k]

\* C11: the loops abort on the first failure.  In the attach-config script a
\* repository lookup or attach POST of batch i that ends in an exception
\* (time-out included) or an error status is the last call of the run, which
\* exits with status 1 without forming a later batch; in the topics script a
\* topic fetch or update for row r that fails is the last call of the run,
\* which exits with status 1.  The calls of earlier batches and rows stay as
\* they ended: nothing undoes them.
C11_AbortOnFirstFailure == []AbortsOnFirstFailure /\ [][LogsOnlyGrow]_vars

\* C11 witness: the attach POST of the second batch failed after the first
\* batch had been attached with 202; the run has exited with status 1.
C11_Witness ==
    /\ main.pc = "exited"
    /\ main.exit_status = 1
    /\ main.i = 1
    /\ main.num_batches >= 3
    /\ http[Len(http)].what = "attach"
    /\ CallFailed(http[Len(http)])
    /\ \E k \in 1..Len(http) :
         /\ http[k].what = "attach" /\ http[k].batch = 0
         /\ http[k].status_code = 202

\* The same in the topics script: the update of the second row failed after
\* the first row had been updated.
TopicsAbortReached ==
    /\ topics.pc = "exited"
    /\ topics.exit_status = 1
    /\ topics.index = 1
    /\ topics.nrows = 2
    /\ Len(topics.log) = 4
    /\ topics.error = "TopicUpdateError"

-----------------------------------------------------------------------------
(* More properties of the attach-config script (specification SpecMain).   *)

\* The repository GETs of batch b among the calls before the k-th.
GetsBefore(k, b) ==
    SelectSeq(SubSeq(http, 1, k - 1), LAMBDA g : g.what = "repo" /\ g.batch = b)

NamesOf(calls) == [x \in 1..Len(calls) |-> calls[x].name]

Succeeded(e, status) == e.done /\ ~e.raised /\ e.status_code = status

\* C12: at most one call is in flight, and it is the last one issued.  The
\* calls of the loop come batch after batch: a repository GET is issued for
\* the next name of its batch once the GETs for the names before it have
\* returned 200 and before the attach POST of that batch, and not before the
\* attach POST of the batch before has returned 202; the attach POST of a
\* batch is issued once, after the GETs for all names of the batch, in the
\* order of the list, have returned.
C12_OneCallAtATime ==
    /\ Cardinality({k \in 1..Len(http) : ~http[k].done}) <= 1
    /\ \A k \in 1..Len(http) : LET e == http[k] IN
         /\ ~e.done => k = Len(http)
         /\ k > 1 => http[k - 1].batch <= e.batch
         /\ e.what = "repo" =>
              LET before == GetsBefore(k, e.batch)
                  batch == main.batches[e.batch + 1]
              IN  /\ Len(before) < Len(batch)
                  /\ e.name = batch[Len(before) + 1]
                  /\ \A x \in 1..Len(before) : Succeeded(before[x], 200)
                  /\ \A p \in 1..(k - 1) :
                       http[p].what = "attach" => http[p].batch < e.batch
                  /\ e.batch > 0 =>
                       \E p \in 1..(k - 1) :
                         /\ http[p].what = "attach"
                         /\ http[p].batch = e.batch - 1
                         /\ Succeeded(http[p], 202)
         /\ e.what = "attach" =>
              LET before == GetsBefore(k, e.batch) IN
                /\ NamesOf(before) = main.batches[e.batch + 1]
                /\ \A x \in 1..Len(before) : Succeeded(before[x], 200)
                /\ \A p \in 1..(k - 1) :
                     http[p].what = "attach" => http[p].batch < e.batch

\* C12 witness: the attach POST of the second batch is in flight, after the
\* GETs for the three names of that batch.
C12_Witness ==
    /\ AwaitingResponse(http)
    /\ http[Len(http)].what = "attach"
    /\ http[Len(http)].batch = 1
    /\ Len(main.batches[2]) = 3
    /\ Len(GetsBefore(Len(http), 1)) = 3

-----------------------------------------------------------------------------
(* Properties of get_code_security_config_id (specification SpecLookup).   *)

\* The places of the list where a configuration has the name looked for.
PlacesNamed(configs, name) == {k \in 1..Len(configs) : configs[k].name = name}

Least(S) == CHOOSE k \in S : \A j \in S : k <= j

\* C13: when the GET of the configurations succeeds, the function returns
\* the id of the first configuration of the list whose name is config_name,
\* and raises CodeSecurityConfigNotFoundError, made of the owner and
\* config_name, if and only if no configuration of the list has that name.
\* When the GET ends with status 4xx or 5xx, or with an exception of
\* requests, the function raises CodeSecurityConfigRetrievalError, and never
\* the not-found error.
C13_ConfigIdLookup ==
    cfg.fn = "get_code_security_config_id" =>
      LET out == args.out
          places == PlacesNamed(args.configs, <<"c", "f", "g">>)
          succeeded == ~out.raised /\ out.status_code < 400
          notFound == ~cfg.ok /\ cfg.error = "CodeSecurityConfigNotFoundError"
      IN  /\ (succeeded /\ places # {}) =>
                /\ cfg.ok
                /\ cfg.value.int = args.configs[Least(places)].id
          /\ succeeded => (notFound <=> places = {})
          /\ notFound => /\ succeeded
                         /\ cfg.key = << <<"o", "r", "g">>, <<"c", "f", "g">> >>
          /\ (~out.raised /\ out.status_code >= 400) =>
                /\ ~cfg.ok
                /\ cfg.error = "CodeSecurityConfigRetrievalError"
          /\ (out.raised /\ out.error \in {"ConnectionError", "HTTPError"}) =>
                /\ ~cfg.ok
                /\ cfg.error = "CodeSecurityConfigRetrievalError"

\* C13 witness: the list holds another configuration first and then two of
\* the name looked for; the function returned the id of the first of these.
C13_Witness ==
    /\ cfg.fn = "get_code_security_config_id"
    /\ ~args.out.raised /\ args.out.status_code = 200
    /\ Len(args.configs) = 3
    /\ args.configs[1].name # <<"c", "f", "g">>
    /\ args.configs[2] = [name |-> <<"c", "f", "g">>, id |-> 3]
    /\ args.configs[3] = [name |-> <<"c", "f", "g">>, id |-> 1]
    /\ cfg.ok
    /\ cfg.value.int = 3

-----------------------------------------------------------------------------
(* Properties of the topics script (specification SpecTopics).             *)

\* The PUT of the row at hand has been issued: its payload is updated_topics.
PutIssued ==
    /\ topics.log # << >>
    /\ topics.log[Len(topics.log)].method = "PUT"
    /\ topics.updated_topics # << >>

\* C14: when add_topics_to_repo issues the PUT, the list it sends holds
\* exactly the topics the GET before returned and the new topics, each once:
\* no topic the repository had is dropped, no new topic is missing, nothing
\* else is sent; and the PUT follows a GET for the same row that returned 200.
C14_TopicsAreAdded ==
    LET sent == topics.updated_topics
        current == topics.current_topics
        new == topics.new_topics
    IN  /\ (topics.pc = "update" \/ PutIssued) =>
              /\ ToSet(sent) = ToSet(current) \cup ToSet(new)
              /\ Len(sent) = Cardinality(ToSet(sent))
              /\ \A k \in 1..Len(current) : \E x \in 1..Len(sent) : sent[x] = current[k]
              /\ \A k \in 1..Len(new) : \E x \in 1..Len(sent) : sent[x] = new[k]
              /\ new # << >>
        /\ \A k \in 1..Len(topics.log) :
              topics.log[k].method = "PUT" =>
                /\ k > 1
                /\ topics.log[k - 1].method = "GET"
                /\ topics.log[k - 1].index = topics.log[k].index
                /\ ~topics.log[k - 1].raised
                /\ topics.log[k - 1].status_code = 200

\* C14 witness: the cell reads "b;b", the repository had the topic a, and
\* the PUT, which returned 200, sent the two topics a and b.
C14_Witness ==
    /\ PutIssued
    /\ topics.log[Len(topics.log)].status_code = 200
    /\ topics.new_topics = << <<"b">>, <<"b">> >>
    /\ topics.current_topics = << <<"a">> >>
    /\ Len(topics.updated_topics) = 2

-----------------------------------------------------------------------------
(* Properties of the two calls (specification Spec): sleeps and requests.  *)

\* The requests a call has issued: the ones answered, and the one in flight
\* or refused by the network.
Issued(f) ==
    f.nreq + (IF f.pc = "request" \/ (f.pc = "raised" /\ f.error = "RequestException")
              THEN 1 ELSE 0)

\* Every retry (a sleep, or a wait of 0 seconds) has led to one more request,
\* except the sleep still in progress.
RequestsMatchRetries(f) ==
    /\ f.pc = "idle" => f.nreq = 0 /\ f.waits = << >>
    /\ f.pc = "sleep" => Issued(f) = Len(f.waits) /\ f.sleeping > 0
                         /\ LastWait(f).secs = f.sleeping
    /\ f.pc \in {"request", "check", "returned", "raised"} =>
          Issued(f) = Len(f.waits) + 1
    /\ f.retries = Len(f.waits) - (IF f.pc = "sleep" THEN 1 ELSE 0)

\* One step of a call, from frame f to frame g, the clock going from t to u:
\* a sleep ends only after its whole duration and only in a new request; a
\* timeout error is raised only by the code that has just received a
\* response; a request ends in a response or in the exception of requests.
StepKeepsSleeps(f, g, t, u) ==
    /\ f.pc = "sleep" /\ g # f =>
          /\ g.pc = "request"
          /\ u - t >= f.sleeping * TicksPerSecond
          /\ g.waits = f.waits /\ g.nreq = f.nreq /\ g.error = "none"
    /\ g.pc = "raised" /\ f.pc # "raised" /\ g.error \in TimeoutErrors =>
          f.pc = "check"
    /\ f.pc = "request" /\ g # f =>
          \/ g.pc = "check" /\ g.nreq = f.nreq + 1
          \/ g.pc = "raised" /\ g.error = "RequestException"

\* C15: the timeout is tested only right after a response, never during or
\* after a sleep: a sleep that has begun lasts its whole duration and is
\* followed by one more request, even when it ends after the deadline; so a
\* call issues one request more than it has made retries.
C15_SleepsRunToTheEnd ==
    /\ [](RequestsMatchRetries(get) /\ RequestsMatchRetries(post))
    /\ [][/\ StepKeepsSleeps(get, get', now, now')
          /\ StepKeepsSleeps(post, post', now, now')]_vars

\* C15 witness: with a timeout of 3 ticks the call slept 15 seconds on a
\* rate-limited response, issued its second request well after the deadline
\* and returned its response.
C15_Witness ==
    /\ timeout_seconds = 3
    /\ post.pc = "returned"
    /\ post.nreq = 2
    /\ post.waits = << [kind |-> "rate", secs |-> 15] >>
    /\ post.current_time - post.start_time > 15 * TicksPerSecond

-----------------------------------------------------------------------------
(* Termination of the two calls (specification SpecLive).                  *)

Ended(f) == f.pc \in {"returned", "raised"}

\* C16 as stated: every call eventually ends, returning a response or failing
\* with a timeout error.
C16_EndsReturnedOrTimeout ==
    <>(\A m \in Methods : Frame(m).pc = "returned" \/ TimeoutRaised(Frame(m)))

\* C16: every call eventually ends, whatever the server answers: it returns
\* a response, fails with a timeout error, or fails with the ValueError of a
\* rate-limited response whose X-RateLimit-Reset is no integer.  It issues at
\* most one request per tick of the timeout and one more, and the cap on the
\* requests of the model is never what stops it.
C16_EndsReturnedTimeoutOrValueError ==
    /\ <>(\A m \in Methods : Ended(Frame(m)))
    /\ [](\A m \in Methods :
            LET f == Frame(m)
            IN  /\ f.pc = "raised" => f.error \in TimeoutErrors \cup {"ValueError"}
                /\ f.pc = "raised" /\ f.error = "ValueError" =>
                      RateLimitedResponse(f.response) /\ ~ResetReadable(f.response)
                /\ f.nreq <= timeout_seconds + 1
                /\ f.pc = "request" => Len(served) < LiveRequests)

\* C16 witness: the server answers rate limited without end, with a reset
\* time already past; with a timeout of 3 ticks both calls give up with the
\* timeout error at their fourth response.
C16_Witness ==
    /\ timeout_seconds = 3
    /\ \A m \in Methods :
         /\ TimeoutRaised(Frame(m))
         /\ Frame(m).nreq = 4
         /\ \A k \in 1..Len(Frame(m).waits) : Frame(m).waits[k].kind = "rate"
    /\ \A k \in 1..Len(served) : RateLimitedResponse(served[k])

-----------------------------------------------------------------------------
(* Errors and exit statuses of the scripts (specification SpecScripts).    *)

\* A script that has met an error has ended, with a status other than 0.
EndedInError(s) == s.pc = "exited" /\ s.exit_status # 0

AttachErrorsAreFatal == main.error # "none" => EndedInError(main)

TopicsErrorsAreFatal == topics.error # "none" => EndedInError(topics)

AdoErrorsAreFatal ==
    ado.error # "none" \/ ado.failures > 0 => EndedInError(ado)

\* C17: in every script an error (an exception, or a request answered with
\* a failure status) ends the script at once with a status other than 0: no
\* script goes on to later work or ends with status 0 after an error.
C17_ErrorsAreFatal ==
    /\ AttachErrorsAreFatal
    /\ TopicsErrorsAreFatal
    /\ AdoErrorsAreFatal

\* ado_repo_information.py has ended with status 0, its Excel file written,
\* after a request of its loop was answered with a failure status.
AdoCompletedAfterFailure ==
    /\ ado.pc = "exited" /\ ado.exit_status = 0
    /\ ado.completed /\ ado.failures > 0

\* ado_repo_information.py has ended with status 0 at the exit() of line 70.
AdoExitZeroOnProjectsFailure ==
    /\ ado.pc = "exited" /\ ado.exit_status = 0
    /\ ~ado.completed /\ ado.failures = 1

-----------------------------------------------------------------------------
(* The helpers of the topics and repo-information scripts (specification   *)
(* SpecHelper).                                                            *)

\* The call is retrying: it has had a response and sleeps or requests again.
HelperRetrying == call.nreq > 0 /\ call.pc \in {"sleep", "request"}

\* C18: a call of safe_get_request / safe_put_request is bounded by an
\* overall timeout: it retries only while the time elapsed since the call is
\* within timeout_seconds, and it never ends because its retries have used
\* up the recursion depth of the interpreter.
C18_HelpersBoundedByTimeout ==
    /\ HelperRetrying => call.current_time - call.called_at <= timeout_seconds
    /\ call.pc = "raised" => call.error # "RecursionError"

\* Against a server that answers rate limited every time, the call is still
\* retrying when more time has passed than the largest timeout tried.
HelperRetriesPastEveryTimeout ==
    /\ HelperRetrying
    /\ call.nreq = Len(call.waits)
    /\ call.nreq >= 2
    /\ call.current_time - call.called_at > MaxTimeout

\* Against the same server, with reset times already past, the call ends
\* after RecursionLimit requests with RecursionError, having slept not once.
HelperEndsByRecursionError ==
    /\ call.pc = "raised" /\ call.error = "RecursionError"
    /\ call.nreq = RecursionLimit
    /\ \A k \in 1..Len(call.waits) : call.waits[k] = 0

-----------------------------------------------------------------------------
(* The retry budget of safe_post_request (specification Spec).             *)

\* What holds of the budget in every state of a call.
BudgetOfCall(f) ==
    /\ f.pc # "idle" => f.backoff_time >= InitialBackoff
    /\ f.pc = "request" /\ f.nreq = 0 => f.backoff_time = InitialBackoff
    /\ f.pc # "idle" => f.start_time = EpochStart * TicksPerSecond
    /\ TimeoutRaised(f) => f.current_time - f.start_time > timeout_seconds

\* One step of the call, from frame f to frame g at clock t.
BudgetStep(f, g, t) ==
    /\ f.pc = "idle" /\ g.pc # "idle" =>
          g.start_time = t /\ g.backoff_time = InitialBackoff
    /\ f.pc # "idle" =>
          /\ g.start_time = f.start_time
          /\ g.backoff_time >= f.backoff_time
          /\ g.backoff_time # f.backoff_time =>
                /\ f.pc = "sleep" /\ LastWait(f).kind = "conflict"
                /\ g.backoff_time = BackoffFactor * f.backoff_time
          /\ f.pc = "check" /\ RateLimitedResponse(f.response) =>
                g.backoff_time = f.backoff_time
          /\ f.pc = "sleep" /\ LastWait(f).kind = "rate" =>
                g.backoff_time = f.backoff_time

\* C19: within one call of safe_post_request start_time is set once, at the
\* call, and no retry changes it, so both timeout errors are measured from
\* the same start; backoff_time is 1 at the first request, is changed by no
\* rate-limit retry (with or without a sleep), and only ever grows: the one
\* step that changes it is the end of a conflict sleep, which doubles it.
C19_OneBudgetPerCall ==
    /\ []BudgetOfCall(post)
    /\ [][BudgetStep(post, post', now)]_vars

\* C19 witness: a 409, a rate-limited response and a second 409 are retried
\* (back-off 1, then 2 after the rate-limit wait), the back-off stands at 4,
\* and the rate-limited response that follows raises the rate-limit timeout
\* error, measured from the start of the call.
C19_Witness ==
    /\ post.pc = "raised" /\ post.error = "TimeoutError: rate limit"
    /\ Len(post.waits) = 3
    /\ post.waits[1] = [kind |-> "conflict", secs |-> 1]
    /\ post.waits[2].kind = "rate"
    /\ post.waits[3] = [kind |-> "conflict", secs |-> 2]
    /\ post.backoff_time = 4

-----------------------------------------------------------------------------
(* Properties of get_repo_ids_from_names (specification SpecMain).         *)

\* A repository GET that returned a response with another status than 200.
NotFound(e) == e.what = "repo" /\ e.done /\ ~e.raised /\ e.status_code # 200

Keys(dict) == {dict[k].key : k \in 1..Len(dict)}

\* C20: get_repo_ids_from_names asks for the names in the order of the list
\* and raises RepositoryNotFoundError, carrying the name and the owner, at the
\* first name whose GET returns a response that is not 200, whatever its
\* status; no request follows it.  When every GET has returned 200 the
\* mapping it returns has one entry per distinct name, with the id of that
\* repository.
C20_RepoIdsOrNotFound ==
    /\ \A k \in 1..Len(http) :
         NotFound(http[k]) =>
           /\ k = Len(http)
           /\ main.error = "RepositoryNotFoundError"
    /\ main.error = "RepositoryNotFoundError" =>
         /\ http # << >>
         /\ LET last == http[Len(http)]
                before == GetsBefore(Len(http), last.batch)
            IN  /\ NotFound(last)
                /\ main.error_key = <<last.name, Owner>>
                /\ main.pc = "exited" /\ main.exit_status = 1
                /\ Len(before) = main.j
                /\ last.name = main.batch_repo_names[main.j + 1]
                /\ \A x \in 1..Len(before) :
                     /\ before[x].name = main.batch_repo_names[x]
                     /\ Succeeded(before[x], 200)
    /\ main.pc = "attach" =>
         /\ Keys(main.repo_ids) =
              {main.batch_repo_names[x] : x \in 1..Len(main.batch_repo_names)}
         /\ Len(main.repo_ids) = Cardinality(Keys(main.repo_ids))
         /\ \A k \in 1..Len(main.repo_ids) :
              main.repo_ids[k].value = RepoId(main.repo_ids[k].key)

\* C20 witness: in the second batch, of three names, the GET for the second
\* name returns 403 and the script ends with RepositoryNotFoundError for that
\* name; the third name is never asked for.
C20_Witness ==
    /\ main.error = "RepositoryNotFoundError"
    /\ main.i = 1 /\ main.j = 1
    /\ Len(main.batch_repo_names) = 3
    /\ http[Len(http)].status_code = 403
    /\ main.error_key = <<main.batch_repo_names[2], Owner>>

\* A batch that names one repository twice yields a mapping with one entry
\* for it.
RepoIdsOfRepeatedName ==
    /\ main.pc = "attach"
    /\ Len(main.batch_repo_names) = 3
    /\ Len(main.repo_ids) = 1

-----------------------------------------------------------------------------
(* Failures of read_csv_file in the two scripts that read a CSV file       *)
(* (specification SpecScripts).                                            *)

CSVFileErrors ==
    {"CSVFileError", "CSVFileNoPathError", "CSVFileNotFoundError",
     "CSVFileEmptyError", "CSVFileParseError", "CSVFileColumnsError"}

\* The exception each problem of the file is to be reported as.
CsvErrorFor(problem) ==
    CASE problem = "blank path" -> "CSVFileNoPathError"
      [] problem = "no file" -> "CSVFileNotFoundError"
      [] problem = "empty file" -> "CSVFileEmptyError"
      [] problem = "parse error" -> "CSVFileParseError"
      [] problem \in {"no Repo column", "missing columns"} -> "CSVFileColumnsError"
      [] problem = "other error" -> "CSVFileError"

\* The attach-config script has ended in read_csv_file: its two lookups
\* returned, and the file has a problem.
AttachReadCsvFailed ==
    /\ main.pc = "exited" /\ main.error # "none"
    /\ csv.state # "ok"
    /\ Len(http) = 2
    /\ \A k \in 1..2 : Succeeded(http[k], 200)

\* The topics script has ended in read_csv_file, its first call.
TopicsReadCsvFailed ==
    /\ topics.pc = "exited" /\ topics.error # "none"
    /\ topics.csv # "ok"

\* C21: every failure of read_csv_file is a CSVFileError or a subclass of it,
\* the one that names the problem met: CSVFileNoPathError for a blank path,
\* CSVFileNotFoundError for a file that does not exist, CSVFileEmptyError for
\* an empty file, CSVFileParseError for a parse failure, CSVFileColumnsError
\* for missing columns; no exception of another type leaves read_csv_file.
C21_CsvFailuresAreCsvErrors ==
    /\ AttachReadCsvFailed =>
          main.error \in CSVFileErrors /\ main.error = CsvErrorFor(csv.state)
    /\ TopicsReadCsvFailed =>
          topics.error \in CSVFileErrors /\ topics.error = CsvErrorFor(topics.csv)

\* The attach-config script was given the path of a file that does not exist
\* and has ended with a TypeError.
AttachMissingFileTypeError ==
    /\ AttachReadCsvFailed
    /\ csv.state = "no file"
    /\ main.error = "TypeError"
    /\ main.exit_status = 1

\* The topics script was given an empty file and has ended with a TypeError.
TopicsEmptyFileTypeError ==
    /\ TopicsReadCsvFailed
    /\ topics.csv = "empty file"
    /\ topics.error = "TypeError"

\* The problems that are reported as the claim says.
CsvErrorsReportedRight ==
    /\ AttachReadCsvFailed
         /\ csv.state \in {"blank path", "no Repo column", "other error"} =>
          main.error = CsvErrorFor(csv.state)
    /\ TopicsReadCsvFailed
         /\ topics.csv \in {"blank path", "missing columns", "other error"} =>
          topics.error = CsvErrorFor(topics.csv)

-----------------------------------------------------------------------------
(* add_topics_to_repo called twice (specification SpecRerun).              *)

RequestsOfRun(r) == SelectSeq(twice.log, LAMBDA e : e.run = r)

Puts(log) == SelectSeq(log, LAMBDA e : e.method = "PUT")

\* C22: a call with no new topic issues no request; a call issues one GET
\* and, only when some new topic is not among the topics the GET returned,
\* one PUT after it; and once a first call has returned, a second call with
\* the same topics against the server that stored the PUT issues no PUT and
\* leaves the topics of the repository as they were.
C22_SecondRunChangesNothing ==
    /\ twice.new_topics = << >> => twice.log = << >>
    /\ \A r \in 1..2 :
         LET reqs == RequestsOfRun(r) IN
           /\ Len(reqs) <= 2
           /\ Len(reqs) >= 1 => reqs[1].method = "GET"
           /\ Len(reqs) = 2 =>
                /\ reqs[2].method = "PUT"
                /\ \E k \in 1..Len(twice.new_topics) :
                     \A x \in 1..Len(reqs[1].names) :
                       reqs[1].names[x] # twice.new_topics[k]
           /\ ( /\ Len(reqs) = 1
                /\ twice.run > r \/ twice.pc = "done" ) =>
                \A k \in 1..Len(twice.new_topics) :
                  \E x \in 1..Len(reqs[1].names) :
                    reqs[1].names[x] = twice.new_topics[k]
    /\ Puts(RequestsOfRun(2)) = << >>
    /\ twice.run = 2 => twice.stored = twice.at_start
    /\ twice.pc = "done" /\ twice.new_topics # << >> =>
         Len(RequestsOfRun(2)) = 1

\* C22 witness: the cell reads "b;b" and the repository held the topic a;
\* the first call sent a PUT, the second only the GET, which returned the two
\* topics the first had stored.
C22_Witness ==
    /\ twice.pc = "done"
    /\ twice.new_topics = << <<"b">>, <<"b">> >>
    /\ Len(twice.log) = 3
    /\ twice.log[1] = TopicsRequest("GET", 1, << <<"a">> >>)
    /\ twice.log[2].method = "PUT"
    /\ twice.log[3].method = "GET" /\ twice.log[3].run = 2
    /\ Len(twice.log[3].names) = 2
    /\ twice.stored = twice.log[2].names

-----------------------------------------------------------------------------
(* The pagination loop of github_repo_information.py (specification        *)
(* SpecInfo).                                                              *)

\* The page answered 200 with repositories.
FullPage(e) == ~e.raised /\ e.status_code = 200 /\ e.size > 0

\* The repositories of the pages requested before the n-th, page after page
\* and in the order of each page.
RECURSIVE ReposOfPages(_)
ReposOfPages(n) ==
    IF n = 0 THEN << >>
    ELSE ReposOfPages(n - 1)
           \o [x \in 1..info.requested[n].size |-> <<info.requested[n].page, x>>]

IsPrefix(a, b) == Len(a) <= Len(b) /\ SubSeq(b, 1, Len(a)) = a

\* C23: the pages are requested in the order 1, 2, 3, ..., none skipped or
\* repeated; every page before the last requested answered 200 with
\* repositories, and a page that is empty or not 200 is the last; every
\* repository of every such page has been processed once, in page order,
\* before the next page is requested; and after a page that is not 200 the
\* file is still written, with the rows collected so far.
C23_PagesInOrder ==
    LET n == Len(info.requested) IN
    /\ \A k \in 1..n : info.requested[k].page = k
    /\ \A k \in 1..(n - 1) : FullPage(info.requested[k])
    /\ n > 0 /\ ~FullPage(info.requested[n]) => info.pc \in {"export", "exited"}
    /\ info.pc \in {"page", "export"} \/ info.exported =>
          info.processed = ReposOfPages(n)
    /\ info.pc = "page" => info.page = n + 1
    /\ info.pc = "repo" =>
          /\ info.page = n
          /\ info.processed
               = ReposOfPages(n - 1) \o [x \in 1..info.k |-> <<n, x>>]
    /\ IsPrefix(info.processed, ReposOfPages(n))
    /\ info.rows <= Len(info.processed)
    /\ info.pc = "exited" =>
          IF info.requested[n].raised \/ info.error # "none"
          THEN ~info.exported /\ info.exit_status = 1
          ELSE /\ info.exported /\ info.exported_rows = info.rows
               /\ info.exit_status = 0

\* C23 witness: page 1 had three repositories and page 2 was answered 500;
\* the file was written with the rows of page 1.
C23_Witness ==
    /\ info.exported
    /\ Len(info.requested) = 2
    /\ info.requested[1].size = 3
    /\ info.requested[2].status_code = 500
    /\ info.processed = << <<1, 1>>, <<1, 2>>, <<1, 3>> >>
    /\ info.exported_rows = 3

-----------------------------------------------------------------------------
(* The batch size of the attach-config script (specification SpecMain).    *)

\* get_repo_batch_size has returned and the script goes on with its value.
BatchSizeResolved ==
    \/ main.pc \in {"get_config_id", "get_config", "read_csv", "count_batches",
                    "batch", "repo", "attach"}
    \/ main.completed

\* C24: the batch size the script works with, whatever value of BATCH_SIZE
\* get_repo_batch_size accepted, is an integer of at least 1: the division
\* of line 378 never divides by zero and the loop never runs with a batch
\* size that is not positive.
C24_BatchSizeAtLeastOne ==
    /\ BatchSizeResolved => main.batch_size >= 1
    /\ main.error # "ZeroDivisionError"

\* BATCH_SIZE=0 is accepted and the script ends at line 378 with
\* ZeroDivisionError, after its two lookups and the reading of the file.
BatchSizeZeroDivides ==
    /\ env["BATCH_SIZE"] = Str("0")
    /\ main.pc = "exited" /\ main.exit_status = 1
    /\ main.error = "ZeroDivisionError"
    /\ main.batch_size = 0
    /\ Len(http) = 2

\* BATCH_SIZE=-3 is accepted: the loop has no turn and the script reports
\* success without a request for any of the seven repositories of the file.
NegativeBatchSizeCompletes ==
    /\ env["BATCH_SIZE"] = SetTo(<<"-", "3">>)
    /\ main.completed /\ main.exit_status = 0
    /\ main.batch_size = -3
    /\ Len(main.repo_names) = 7
    /\ main.batches = << >>
    /\ Len(http) = 2

-----------------------------------------------------------------------------
(* What a successful run of the attach-config script has done              *)
(* (specification SpecMain).                                               *)

\* The places of the log where the attach POST of batch b (from 0) stands.
AttachesOf(b) ==
    {k \in 1..Len(http) : http[k].what = "attach" /\ http[k].batch = b}

Occurrences(list, v) == Cardinality({x \in 1..Len(list) : list[x] = v})

\* C25: when the script has reported success with a batch size of at least
\* 1, every call it made returned, every repository GET with 200 and every
\* attach POST with 202; every name of the file is in a batch; each batch has
\* exactly one attach POST, which follows a GET for each name of the batch and
\* carries the id of each name once and no other id.  An attach POST that
\* returned another status, 200 included, is the last call of a run that
\* did not report success.
C25_SuccessMeansAllAttached ==
    /\ \A k \in 1..Len(http) :
         ( /\ http[k].what = "attach" /\ http[k].done
           /\ ~Succeeded(http[k], AttachOk) ) =>
             /\ k = Len(http)
             /\ ~main.completed
             /\ main.pc = "exited" /\ main.exit_status = 1
    /\ (main.completed /\ main.batch_size >= 1) =>
         /\ \A k \in 1..Len(http) :
              /\ http[k].done /\ ~http[k].raised
              /\ http[k].what = "repo" => http[k].status_code = 200
              /\ http[k].what = "attach" => http[k].status_code = AttachOk
         /\ Flatten(main.batches) = main.repo_names
         /\ \A b \in 1..Len(main.batches) :
              /\ Cardinality(AttachesOf(b - 1)) = 1
              /\ LET p == CHOOSE k \in AttachesOf(b - 1) : TRUE
                     names == main.batches[b]
                 IN  /\ \A x \in 1..Len(names) :
                          /\ \E g \in 1..(p - 1) :
                               /\ http[g].what = "repo"
                               /\ http[g].batch = b - 1
                               /\ http[g].name = names[x]
                               /\ Succeeded(http[g], 200)
                          /\ Occurrences(http[p].ids, RepoId(names[x])) = 1
                     /\ \A y \in 1..Len(http[p].ids) :
                          \E x \in 1..Len(names) : http[p].ids[y] = RepoId(names[x])

\* C25 witness: a file of five names, a and b among them, with BATCH_SIZE=3
\* completed with two attach POSTs, the first carrying both ids.
C25_Witness ==
    /\ main.completed
    /\ main.batch_size = 3
    /\ Len(main.repo_names) = 5
    /\ Cardinality(AttachesOf(0)) = 1 /\ Cardinality(AttachesOf(1)) = 1
    /\ Len(http) = 9
    /\ Len(http[6].ids) = 2

-----------------------------------------------------------------------------
(* Rows and columns of the repo-information scripts (specification         *)
(* SpecRows).                                                              *)

\* C26: in every repo-information script each row appended to
\* repositories_data has as many fields as the column list the DataFrame is
\* built with, whatever CATEGORY_LABEL_TEAM and CATEGORY_LABEL_LANGUAGE are
\* and whether or not the repository is in team_owner_dict; so building the
\* DataFrame never fails.
C26_RowsFitColumns ==
    /\ \A k \in 1..Len(row.repositories_data) :
         Len(row.repositories_data[k])
           = Len(columns(row.script, row.team, row.language))
    /\ row.error # "ValueError"

\* python/github_repo_information.py with both flags at their default
\* (false): a row of five fields for three columns, and the DataFrame raises.
RootScriptRowTooLong ==
    /\ row.script = "github_repo_information.py"
    /\ ~row.team /\ ~row.language
    /\ Len(row.repositories_data) = 1
    /\ Len(row.repositories_data[1]) = 5
    /\ Len(row.columns) = 3
    /\ row.pc = "exited" /\ row.error = "ValueError" /\ row.exit_status = 1

\* The other three scripts keep rows and columns alike.
OtherScriptsRowsFit ==
    row.script # "github_repo_information.py" => C26_RowsFitColumns

-----------------------------------------------------------------------------
(* process_organization of the pipeline-update script (specification       *)
(* SpecPipe).                                                              *)

\* The calls made for repository r, in order, and their names.
CallsFor(r) == SelectSeq(pipe.calls, LAMBDA c : c.repo = r)

OpsFor(r) == [i \in 1..Len(CallsFor(r)) |-> CallsFor(r)[i].op]

HasCall(r, op) == \E i \in 1..Len(CallsFor(r)) : CallsFor(r)[i].op = op

FailedCall(r, op) ==
    \E i \in 1..Len(CallsFor(r)) : CallsFor(r)[i].op = op /\ ~CallsFor(r)[i].ok

\* The repository's turn in the loop is over.
RepoOver(r) == pipe.repo > r \/ pipe.pc = "done"

\* The calls of a repository whose clone succeeded, for n listed files.
FullOrder(n) ==
    <<"get_yaml_files", "clone_repo">>
      \o [i \in 1..n |-> "update_yaml_content"]
      \o <<"push_changes", "create_pull_request">>

\* No clone without a .yml file, nothing after a failed clone, and after a
\* good clone all YAML updates, one push, one pull request, in this order.
PipeOrderKept ==
    \A r \in 1..pipe.repos :
      LET cs == CallsFor(r)
      IN  Len(cs) > 0 =>
            /\ cs[1].op = "get_yaml_files"
            /\ cs[1].files = 0 => Len(cs) = 1
            /\ FailedCall(r, "clone_repo") => OpsFor(r) = <<"get_yaml_files", "clone_repo">>
            /\ IsPrefix(OpsFor(r), FullOrder(cs[1].files))
            /\ (RepoOver(r) /\ HasCall(r, "clone_repo") /\ ~FailedCall(r, "clone_repo"))
                 => OpsFor(r) = FullOrder(cs[1].files)

\* A failure in one repository does not stop the following ones: at the end
\* each repository has had its listing.
PipeEveryRepoReached ==
    pipe.pc = "done" => \A r \in 1..pipe.repos : HasCall(r, "get_yaml_files")

\* The pull request is created only for a branch whose YAML updates and push
\* all succeeded.
PullRequestOnlyAfterGoodPush ==
    \A r \in 1..pipe.repos :
      HasCall(r, "create_pull_request")
        => ~FailedCall(r, "push_changes") /\ ~FailedCall(r, "update_yaml_content")

\* C27: for each repository of process_organization no clone is attempted
\* when no .yml file is listed; no YAML update, push or pull request is
\* attempted when the clone fails; after a good clone the order is all YAML
\* updates, one push_changes, one create_pull_request, the pull request only
\* after a push that succeeded (never for a branch whose push or YAML update
\* failed); and a failure in one repository never stops the following ones.
C27_PipelineUpdateOrder ==
    /\ PipeOrderKept
    /\ PipeEveryRepoReached
    /\ PullRequestOnlyAfterGoodPush

\* A pull request created for the first repository after its push failed,
\* with the second repository processed after it.
PullRequestAfterFailedPush ==
    /\ pipe.pc = "done" /\ pipe.repos = 2
    /\ FailedCall(1, "push_changes")
    /\ HasCall(1, "create_pull_request") /\ ~FailedCall(1, "create_pull_request")
    /\ HasCall(2, "get_yaml_files")

\* What the loop does keep: the order of the calls, and every repository
\* reached after failures before it.
PipeOrderAndReach ==
    /\ PipeOrderKept
    /\ PipeEveryRepoReached

\* Both repositories fail at a different call and the loop still ends.
PipeFailuresPassed ==
    /\ pipe.pc = "done" /\ pipe.repos = 2
    /\ FailedCall(1, "clone_repo")
    /\ FailedCall(2, "update_yaml_content")
    /\ HasCall(2, "create_pull_request")

=============================================================================
